---- MODULE Spec2Model ----
(***************************************************************************)
(* PIP (Parity Light Protocol) request pipeline of ethcore/light:          *)
(* request catalogue, back-reference resolution, response validation and   *)
(* the error -> punishment mapping.                                        *)
(*                                                                         *)
(* Values: an H256 and a u64 are both modelled by naturals; the type of a  *)
(* value is carried by the Output / HashOrNumber tag or by the position of *)
(* the field that holds it.                                                *)
(***************************************************************************)
EXTENDS Integers, Sequences, FiniteSets, TLC

\* ------------------------------------------------------------------ bounds
\* Largest number of requests in one batch.
MaxBatch == 2
\* Largest number of punishments kept in the report log of a session.
MaxReports == 2
\* Largest number of batches offered to one peer session.
MaxPending == 2
\* Bound of the outbound queue of a connection.
QueueBound == 1
\* max_size, in bytes, of the MemoryLruCache under test.
CacheMaxSize == 4
\* Largest version a migration reports.
MaxVersion == 3
\* Number of fill and adjust_refs calls made on one request.
MaxSteps == 2

\* ------------------------------------------------------- program constants
\* Number of output slots of the kind that declares most (slots 0 and 1).
OutputSlots == 2

\* ------------------------------------------------------------ value domains
ReqIdx == 0 .. (MaxBatch - 1)
\* slot 1 is declared by two kinds only, slot 0 by four
OutIdx == 0 .. (OutputSlots - 1)
\* H256 values appearing in requests as scalars / in responses
ReqHashes == {0}
ReqNumbers == {5}
H256s == {0, 170}
U64s == {1000}

Ok(x) == [ok |-> TRUE, val |-> x]
Err(e) == [ok |-> FALSE, err |-> e]
Unit == "()"

NoSuchOutput == "NoSuchOutput"
WrongKind == "WrongKind"

\* ------------------------------------------------------------------- Field
Scalar(x) == [tag |-> "Scalar", val |-> x]
BackReference(req, idx) == [tag |-> "BackReference", req |-> req, idx |-> idx]

FieldOf(S) ==
  {Scalar(x) : x \in S} \cup {BackReference(r, i) : r \in ReqIdx, i \in OutIdx}

Field_into_scalar_lax(self) ==
  IF self.tag = "Scalar" THEN Ok(self.val) ELSE Ok(0)

Field_into_scalar(self) ==
  IF self.tag = "Scalar" THEN Ok(self.val) ELSE Err(NoSuchOutput)

\* mapping is a function usize -> usize
Field_adjust_req_both(self, mapping) ==
  IF self.tag = "BackReference"
    THEN BackReference(mapping[self.req], mapping[self.idx])
    ELSE self

Field_adjust_req(self, mapping) ==
  IF self.tag = "BackReference"
    THEN BackReference(mapping[self.req], self.idx)
    ELSE self

\* ------------------------------------------------------ Output, OutputKind
OutputKind == {"Hash", "Number"}
Output_Hash(h) == [kind |-> "Hash", val |-> h]
Output_Number(n) == [kind |-> "Number", val |-> n]
Output_kind(self) == self.kind

\* ------------------------------------------------------------ HashOrNumber
HashOrNumber_Hash(h) == [tag |-> "Hash", val |-> h]
HashOrNumber_Number(n) == [tag |-> "Number", val |-> n]
ReqHashOrNumbers ==
  {HashOrNumber_Hash(h) : h \in ReqHashes} \cup {HashOrNumber_Number(n) : n \in ReqNumbers}

\* ------------------------------------------------------------------ Action
\* common_types::transaction::Action: Create, or Call(Address)
Action_Create == [tag |-> "Create"]
Action_Call(a) == [tag |-> "Call", addr |-> a]

\* -------------------------------------------------------------- wire codec
\* An encoded value is an RLP item: a byte string or a list of items. Bytes
\* are naturals below 256.
RlpData(bytes) == [list |-> FALSE, data |-> bytes]
RlpList(items) == [list |-> TRUE, items |-> items]

RECURSIVE be_bytes(_)
\* big-endian bytes of an integer without leading zeros; zero is empty
be_bytes(n) == IF n = 0 THEN <<>> ELSE Append(be_bytes(n \div 256), n % 256)

RECURSIVE be_prefix_value(_, _)
\* the integer of the first k bytes, big-endian
be_prefix_value(bytes, k) ==
  IF k = 0 THEN 0 ELSE be_prefix_value(bytes, k - 1) * 256 + bytes[k]

be_value(bytes) == be_prefix_value(bytes, Len(bytes))

\* big-endian bytes of a fixed-width value (hash, address), zero padded
fixed_bytes(n, v) == [i \in 1 .. (n - Len(be_bytes(v))) |-> 0] \o be_bytes(v)

\* byte width of the unsigned integer types and of the fixed-width types
UintTypes == {"u8", "u64", "usize", "U256"}
FixedTypes == {"H256", "Address"}
SizeOf(T) ==
  CASE T = "u8" -> 1 [] T \in {"u64", "usize"} -> 8 [] T = "U256" -> 32
    [] T = "H256" -> 32 [] T = "Address" -> 20

\* the raw encodings that decode as the types of common_types (headers,
\* transactions, receipts), which are kept or validated but not interpreted
OpaqueValid(T) ==
  CASE T = "Header" -> {RlpList(<<RlpData(<<72>>)>>)}
    [] T = "UnverifiedTransaction" -> {RlpList(<<RlpData(<<84>>)>>)}
    [] T = "Receipt" -> {RlpList(<<RlpData(<<>>), RlpData(<<82>>), RlpList(<<>>)>>)}

\* rlp::Encodable of the types that are not defined in the request module
Value_rlp_append(T, v) ==
  CASE T \in UintTypes -> RlpData(be_bytes(v))
    [] T = "bool" -> RlpData(<<IF v THEN 1 ELSE 0>>)
    [] T \in FixedTypes -> RlpData(fixed_bytes(SizeOf(T), v))
    [] T = "Bytes" -> RlpData(v)
    [] T = "Action" ->
         IF v.tag = "Create" THEN RlpData(<<>>)
         ELSE RlpData(fixed_bytes(SizeOf("Address"), v.addr))
    [] T = "Vec<Bytes>" -> RlpList([i \in DOMAIN v |-> RlpData(v[i])])
    [] T \in {"Vec<Receipt>", "Vec<Header>"} -> RlpList(v)

\* Rlp::as_val / as_list of the types that are not defined in the request module
Value_decode(T, rlp) ==
  CASE T \in UintTypes ->
         IF rlp.list THEN Err("RlpExpectedToBeData")
         ELSE IF Len(rlp.data) = 0 THEN Ok(0)
         ELSE IF Len(rlp.data) > SizeOf(T) THEN Err("RlpIsTooBig")
         ELSE IF rlp.data[1] = 0 THEN Err("RlpInvalidIndirection")
         ELSE Ok(be_value(rlp.data))
    [] T = "bool" ->
         IF rlp.list THEN Err("RlpExpectedToBeData")
         ELSE IF Len(rlp.data) = 0 THEN Ok(FALSE)
         ELSE IF Len(rlp.data) = 1 THEN Ok(rlp.data[1] # 0)
         ELSE Err("RlpIsTooBig")
    [] T \in FixedTypes ->
         IF rlp.list THEN Err("RlpExpectedToBeData")
         ELSE IF Len(rlp.data) < SizeOf(T) THEN Err("RlpIsTooShort")
         ELSE IF Len(rlp.data) > SizeOf(T) THEN Err("RlpIsTooBig")
         ELSE Ok(be_value(rlp.data))
    [] T = "Bytes" ->
         IF rlp.list THEN Err("RlpExpectedToBeData") ELSE Ok(rlp.data)
    [] T = "Action" ->
         IF rlp.list THEN Err("RlpExpectedToBeData")
           ELSE IF rlp.data = <<>> THEN Ok(Action_Create)
           ELSE IF Len(rlp.data) < SizeOf("Address") THEN Err("RlpIsTooShort")
           ELSE IF Len(rlp.data) > SizeOf("Address") THEN Err("RlpIsTooBig")
           ELSE Ok(Action_Call(be_value(rlp.data)))
    [] T = "Vec<Bytes>" ->
         \* as_list iterates the items; a byte string has none
         IF ~rlp.list THEN Ok(<<>>)
         ELSE IF \E i \in DOMAIN rlp.items : rlp.items[i].list
           THEN Err("RlpExpectedToBeData")
           ELSE Ok([i \in DOMAIN rlp.items |-> rlp.items[i].data])
    [] T \in {"Vec<Receipt>", "Vec<Header>"} ->
         IF ~rlp.list THEN Ok(<<>>)
         ELSE IF \E i \in DOMAIN rlp.items :
                   rlp.items[i] \notin OpaqueValid(
                     IF T = "Vec<Receipt>" THEN "Receipt" ELSE "Header")
           THEN Err("RlpIncorrectListLen")
           ELSE Ok(rlp.items)

\* Rlp::at(index): the item at a position of a list
Rlp_at(rlp, index) ==
  IF ~rlp.list THEN Err("RlpExpectedToBeList")
  ELSE IF index >= Len(rlp.items) THEN Err("RlpIsTooShort")
  ELSE Ok(rlp.items[index + 1])

\* the first error of a sequence of results, else the sequence of the values
Result_collect(ds) ==
  IF \E i \in DOMAIN ds : ~ds[i].ok
    THEN ds[CHOOSE i \in DOMAIN ds :
              ~ds[i].ok /\ \A j \in DOMAIN ds : ~ds[j].ok => i <= j]
    ELSE Ok([i \in DOMAIN ds |-> ds[i].val])

RECURSIVE Rlp_raw(_)
RECURSIVE Rlp_concat(_)
\* the bytes of the concatenated encodings of a sequence of items
Rlp_concat(items) ==
  IF items = <<>> THEN <<>> ELSE Rlp_raw(Head(items)) \o Rlp_concat(Tail(items))

\* a payload behind its length prefix: short form up to 55 bytes, long form
\* above; offset is 128 for a byte string and 192 for a list
Rlp_framed(offset, payload) ==
  IF Len(payload) <= 55 THEN <<offset + Len(payload)>> \o payload
  ELSE <<offset + 55 + Len(be_bytes(Len(payload)))>>
         \o be_bytes(Len(payload)) \o payload

\* the bytes of an item; a single byte below 128 is its own encoding
Rlp_raw(rlp) ==
  IF rlp.list THEN Rlp_framed(192, Rlp_concat(rlp.items))
  ELSE IF Len(rlp.data) = 1 /\ rlp.data[1] < 128 THEN rlp.data
  ELSE Rlp_framed(128, rlp.data)

\* -------------------------------------------------------------------- Kind
Kind ==
  {"Headers", "HeaderProof", "TransactionIndex", "Receipts", "Body",
   "Account", "Storage", "Code", "Execution", "Signal"}

\* The callbacks of the request operations are function values:
\*   check  : [ReqIdx \X OutIdx \X OutputKind -> Result<(), NoSuchOutput>]
\*   oracle : [ReqIdx \X OutIdx -> Result<Output, NoSuchOutput>]
\*   mapping : [ReqIdx -> usize]
\* note_outputs / fill_outputs return the sequence of calls they make.

\* ------------------------------------------------------------------ header
header_check_outputs_hash_only(self, f) ==
  IF self.start.tag = "Scalar"
    THEN Ok(Unit)
    ELSE f[<<self.start.req, self.start.idx, "Hash">>]

header_check_outputs(self, f) ==
  IF self.start.tag = "Scalar"
    THEN Ok(Unit)
    ELSE IF f[<<self.start.req, self.start.idx, "Hash">>].ok
           THEN f[<<self.start.req, self.start.idx, "Hash">>]
           ELSE f[<<self.start.req, self.start.idx, "Number">>]

\* the OutputKind arguments of the calls check_outputs makes to f, in order
header_check_outputs_probes(self, f) ==
  IF self.start.tag = "Scalar"
    THEN <<>>
    ELSE IF f[<<self.start.req, self.start.idx, "Hash">>].ok
           THEN <<"Hash">>
           ELSE <<"Hash", "Number">>

header_note_outputs(self) == <<>>

header_fill_hash_only(self, oracle) ==
  IF self.start.tag = "BackReference"
    THEN LET o == oracle[<<self.start.req, self.start.idx>>]
         IN  IF o.ok /\ o.val.kind = "Hash"
               THEN [self EXCEPT !.start = Scalar(HashOrNumber_Hash(o.val.val))]
               ELSE self
    ELSE self

header_fill(self, oracle) ==
  IF self.start.tag = "BackReference"
    THEN LET o == oracle[<<self.start.req, self.start.idx>>]
         IN  IF o.ok /\ o.val.kind = "Hash"
               THEN [self EXCEPT !.start = Scalar(HashOrNumber_Hash(o.val.val))]
               ELSE IF o.ok /\ o.val.kind = "Number"
                 THEN [self EXCEPT !.start = Scalar(HashOrNumber_Number(o.val.val))]
                 ELSE self
    ELSE self

header_complete(self) ==
  LET start == Field_into_scalar(self.start)
  IN  IF ~start.ok THEN Err(NoSuchOutput)
      ELSE Ok([kind |-> "Headers", start |-> start.val, skip |-> self.skip,
               max |-> self.max, reverse |-> self.reverse])

header_adjust_refs(self, mapping) ==
  [self EXCEPT !.start = Field_adjust_req(self.start, mapping)]

header_fill_outputs(self) == <<>>

\* ------------------------------------------------------------ header_proof
header_proof_check_outputs(self, f) ==
  IF self.num.tag = "Scalar"
    THEN Ok(Unit)
    ELSE f[<<self.num.req, self.num.idx, "Number">>]

header_proof_note_outputs(self) == << <<0, "Hash">> >>

header_proof_fill_any_kind(self, oracle) ==
  IF self.num.tag = "BackReference"
    THEN LET o == oracle[<<self.num.req, self.num.idx>>]
         IN  IF o.ok THEN [self EXCEPT !.num = Scalar(o.val.val)] ELSE self
    ELSE self

header_proof_fill(self, oracle) ==
  IF self.num.tag = "BackReference"
    THEN LET o == oracle[<<self.num.req, self.num.idx>>]
         IN  IF o.ok /\ o.val.kind = "Number"
               THEN [self EXCEPT !.num = Scalar(o.val.val)]
               ELSE self
    ELSE self

header_proof_complete(self) ==
  LET num == Field_into_scalar(self.num)
  IN  IF ~num.ok THEN Err(NoSuchOutput)
      ELSE Ok([kind |-> "HeaderProof", num |-> num.val])

header_proof_adjust_refs(self, mapping) ==
  [self EXCEPT !.num = Field_adjust_req(self.num, mapping)]

header_proof_fill_outputs(self) == << <<0, Output_Hash(self.hash)>> >>

\* ------------------------------------------------------- transaction_index
transaction_index_check_outputs(self, f) ==
  IF self.hash.tag = "Scalar"
    THEN Ok(Unit)
    ELSE f[<<self.hash.req, self.hash.idx, "Hash">>]

transaction_index_note_outputs(self) == << <<0, "Number">>, <<1, "Hash">> >>

transaction_index_fill(self, oracle) ==
  IF self.hash.tag = "BackReference"
    THEN LET o == oracle[<<self.hash.req, self.hash.idx>>]
         IN  IF o.ok /\ o.val.kind = "Hash"
               THEN [self EXCEPT !.hash = Scalar(o.val.val)]
               ELSE self
    ELSE self

transaction_index_complete(self) ==
  LET hash == Field_into_scalar(self.hash)
  IN  IF ~hash.ok THEN Err(NoSuchOutput)
      ELSE Ok([kind |-> "TransactionIndex", hash |-> hash.val])

transaction_index_adjust_refs(self, mapping) ==
  [self EXCEPT !.hash = Field_adjust_req(self.hash, mapping)]

transaction_index_fill_outputs_swapped(self) ==
  << <<0, Output_Hash(self.hash)>>, <<1, Output_Number(self.num)>> >>

transaction_index_fill_outputs(self) ==
  << <<0, Output_Number(self.num)>>, <<1, Output_Hash(self.hash)>> >>

\* ---------------------------------------------------------- block_receipts
block_receipts_check_outputs(self, f) ==
  IF self.hash.tag = "Scalar"
    THEN Ok(Unit)
    ELSE f[<<self.hash.req, self.hash.idx, "Hash">>]

block_receipts_note_outputs(self) == <<>>

block_receipts_fill(self, oracle) ==
  IF self.hash.tag = "BackReference"
    THEN LET o == oracle[<<self.hash.req, self.hash.idx>>]
         IN  IF o.ok /\ o.val.kind = "Hash"
               THEN [self EXCEPT !.hash = Scalar(o.val.val)]
               ELSE self
    ELSE self

block_receipts_complete(self) ==
  LET hash == Field_into_scalar(self.hash)
  IN  IF ~hash.ok THEN Err(NoSuchOutput)
      ELSE Ok([kind |-> "Receipts", hash |-> hash.val])

block_receipts_adjust_refs(self, mapping) ==
  [self EXCEPT !.hash = Field_adjust_req(self.hash, mapping)]

block_receipts_fill_outputs(self) == <<>>

\* -------------------------------------------------------------- block_body
block_body_check_outputs(self, f) ==
  IF self.hash.tag = "Scalar"
    THEN Ok(Unit)
    ELSE f[<<self.hash.req, self.hash.idx, "Hash">>]

block_body_note_outputs(self) == <<>>

block_body_fill(self, oracle) ==
  IF self.hash.tag = "BackReference"
    THEN LET o == oracle[<<self.hash.req, self.hash.idx>>]
         IN  IF o.ok /\ o.val.kind = "Hash"
               THEN [self EXCEPT !.hash = Scalar(o.val.val)]
               ELSE self
    ELSE self

block_body_complete(self) ==
  LET hash == Field_into_scalar(self.hash)
  IN  IF ~hash.ok THEN Err(NoSuchOutput)
      ELSE Ok([kind |-> "Body", hash |-> hash.val])

block_body_adjust_refs(self, mapping) ==
  [self EXCEPT !.hash = Field_adjust_req(self.hash, mapping)]

block_body_fill_outputs_writes(self) == << <<0, Output_Hash(0)>> >>

block_body_fill_outputs(self) == <<>>

\* ----------------------------------------------------------------- account
account_check_outputs_first_only(self, f) ==
  IF self.block_hash.tag = "BackReference"
    THEN f[<<self.block_hash.req, self.block_hash.idx, "Hash">>]
    ELSE Ok(Unit)

account_check_outputs(self, f) ==
  LET r1 == IF self.block_hash.tag = "BackReference"
              THEN f[<<self.block_hash.req, self.block_hash.idx, "Hash">>]
              ELSE Ok(Unit)
      r2 == IF self.address_hash.tag = "BackReference"
              THEN f[<<self.address_hash.req, self.address_hash.idx, "Hash">>]
              ELSE Ok(Unit)
  IN  IF ~r1.ok THEN r1
      ELSE IF ~r2.ok THEN r2
      ELSE Ok(Unit)

account_note_outputs_by_input(self) ==
  IF self.address_hash.tag = "Scalar"
    THEN << <<0, "Hash">>, <<1, "Hash">> >>
    ELSE << <<0, "Hash">> >>

account_note_outputs(self) == << <<0, "Hash">>, <<1, "Hash">> >>

account_fill(self, oracle) ==
  LET s1 == IF self.block_hash.tag = "BackReference"
              THEN LET o == oracle[<<self.block_hash.req, self.block_hash.idx>>]
                   IN  IF o.ok /\ o.val.kind = "Hash"
                         THEN [self EXCEPT !.block_hash = Scalar(o.val.val)]
                         ELSE self
              ELSE self
  IN  IF s1.address_hash.tag = "BackReference"
        THEN LET o == oracle[<<s1.address_hash.req, s1.address_hash.idx>>]
             IN  IF o.ok /\ o.val.kind = "Hash"
                   THEN [s1 EXCEPT !.address_hash = Scalar(o.val.val)]
                   ELSE s1
        ELSE s1

account_complete(self) ==
  LET block_hash == Field_into_scalar(self.block_hash)
      address_hash == Field_into_scalar(self.address_hash)
  IN  IF ~block_hash.ok THEN Err(NoSuchOutput)
      ELSE IF ~address_hash.ok THEN Err(NoSuchOutput)
      ELSE Ok([kind |-> "Account", block_hash |-> block_hash.val,
               address_hash |-> address_hash.val])

account_adjust_refs(self, mapping) ==
  [self EXCEPT !.block_hash = Field_adjust_req(self.block_hash, mapping),
               !.address_hash = Field_adjust_req(self.address_hash, mapping)]

account_fill_outputs(self) ==
  << <<0, Output_Hash(self.code_hash)>>, <<1, Output_Hash(self.storage_root)>> >>

\* ----------------------------------------------------------------- storage
storage_check_outputs_skips_key(self, f) ==
  LET r1 == IF self.block_hash.tag = "BackReference"
              THEN f[<<self.block_hash.req, self.block_hash.idx, "Hash">>]
              ELSE Ok(Unit)
      r2 == IF self.address_hash.tag = "BackReference"
              THEN f[<<self.address_hash.req, self.address_hash.idx, "Hash">>]
              ELSE Ok(Unit)
  IN  IF ~r1.ok THEN r1
      ELSE IF ~r2.ok THEN r2
      ELSE Ok(Unit)

storage_check_outputs(self, f) ==
  LET r1 == IF self.block_hash.tag = "BackReference"
              THEN f[<<self.block_hash.req, self.block_hash.idx, "Hash">>]
              ELSE Ok(Unit)
      r2 == IF self.address_hash.tag = "BackReference"
              THEN f[<<self.address_hash.req, self.address_hash.idx, "Hash">>]
              ELSE Ok(Unit)
      r3 == IF self.key_hash.tag = "BackReference"
              THEN f[<<self.key_hash.req, self.key_hash.idx, "Hash">>]
              ELSE Ok(Unit)
  IN  IF ~r1.ok THEN r1
      ELSE IF ~r2.ok THEN r2
      ELSE IF ~r3.ok THEN r3
      ELSE Ok(Unit)

storage_note_outputs(self) == << <<0, "Hash">> >>

storage_fill_last_wins(self, oracle) ==
  LET s1 == IF self.block_hash.tag = "BackReference"
              THEN LET o == oracle[<<self.block_hash.req, self.block_hash.idx>>]
                   IN  IF o.ok /\ o.val.kind = "Hash"
                         THEN [self EXCEPT !.block_hash = Scalar(o.val.val)]
                         ELSE self
              ELSE self
      s2 == IF self.address_hash.tag = "BackReference"
              THEN LET o == oracle[<<self.address_hash.req, self.address_hash.idx>>]
                   IN  IF o.ok /\ o.val.kind = "Hash"
                         THEN [self EXCEPT !.address_hash = Scalar(o.val.val)]
                         ELSE s1
              ELSE s1
  IN  IF s2.key_hash.tag = "BackReference"
        THEN LET o == oracle[<<s2.key_hash.req, s2.key_hash.idx>>]
             IN  IF o.ok /\ o.val.kind = "Hash"
                   THEN [s2 EXCEPT !.key_hash = Scalar(o.val.val)]
                   ELSE s2
        ELSE s2

storage_fill(self, oracle) ==
  LET s1 == IF self.block_hash.tag = "BackReference"
              THEN LET o == oracle[<<self.block_hash.req, self.block_hash.idx>>]
                   IN  IF o.ok /\ o.val.kind = "Hash"
                         THEN [self EXCEPT !.block_hash = Scalar(o.val.val)]
                         ELSE self
              ELSE self
      s2 == IF s1.address_hash.tag = "BackReference"
              THEN LET o == oracle[<<s1.address_hash.req, s1.address_hash.idx>>]
                   IN  IF o.ok /\ o.val.kind = "Hash"
                         THEN [s1 EXCEPT !.address_hash = Scalar(o.val.val)]
                         ELSE s1
              ELSE s1
  IN  IF s2.key_hash.tag = "BackReference"
        THEN LET o == oracle[<<s2.key_hash.req, s2.key_hash.idx>>]
             IN  IF o.ok /\ o.val.kind = "Hash"
                   THEN [s2 EXCEPT !.key_hash = Scalar(o.val.val)]
                   ELSE s2
        ELSE s2

storage_complete_swapped(self) ==
  LET block_hash == Field_into_scalar(self.block_hash)
      address_hash == Field_into_scalar(self.address_hash)
      key_hash == Field_into_scalar(self.key_hash)
  IN  IF ~block_hash.ok THEN Err(NoSuchOutput)
      ELSE IF ~address_hash.ok THEN Err(NoSuchOutput)
      ELSE IF ~key_hash.ok THEN Err(NoSuchOutput)
      ELSE Ok([kind |-> "Storage", block_hash |-> block_hash.val,
               address_hash |-> key_hash.val, key_hash |-> address_hash.val])

storage_complete(self) ==
  LET block_hash == Field_into_scalar(self.block_hash)
      address_hash == Field_into_scalar(self.address_hash)
      key_hash == Field_into_scalar(self.key_hash)
  IN  IF ~block_hash.ok THEN Err(NoSuchOutput)
      ELSE IF ~address_hash.ok THEN Err(NoSuchOutput)
      ELSE IF ~key_hash.ok THEN Err(NoSuchOutput)
      ELSE Ok([kind |-> "Storage", block_hash |-> block_hash.val,
               address_hash |-> address_hash.val, key_hash |-> key_hash.val])

storage_adjust_refs_skips_key(self, mapping) ==
  [self EXCEPT !.block_hash = Field_adjust_req(self.block_hash, mapping),
               !.address_hash = Field_adjust_req(self.address_hash, mapping)]

storage_adjust_refs(self, mapping) ==
  [self EXCEPT !.block_hash = Field_adjust_req(self.block_hash, mapping),
               !.address_hash = Field_adjust_req(self.address_hash, mapping),
               !.key_hash = Field_adjust_req(self.key_hash, mapping)]

storage_fill_outputs(self) == << <<0, Output_Hash(self.value)>> >>

\* ----------------------------------------------------------- contract_code
contract_code_check_outputs_first_only(self, f) ==
  IF self.block_hash.tag = "BackReference"
    THEN f[<<self.block_hash.req, self.block_hash.idx, "Hash">>]
    ELSE Ok(Unit)

contract_code_check_outputs(self, f) ==
  LET r1 == IF self.block_hash.tag = "BackReference"
              THEN f[<<self.block_hash.req, self.block_hash.idx, "Hash">>]
              ELSE Ok(Unit)
      r2 == IF self.code_hash.tag = "BackReference"
              THEN f[<<self.code_hash.req, self.code_hash.idx, "Hash">>]
              ELSE Ok(Unit)
  IN  IF ~r1.ok THEN r1
      ELSE IF ~r2.ok THEN r2
      ELSE Ok(Unit)

contract_code_note_outputs(self) == <<>>

contract_code_fill(self, oracle) ==
  LET s1 == IF self.block_hash.tag = "BackReference"
              THEN LET o == oracle[<<self.block_hash.req, self.block_hash.idx>>]
                   IN  IF o.ok /\ o.val.kind = "Hash"
                         THEN [self EXCEPT !.block_hash = Scalar(o.val.val)]
                         ELSE self
              ELSE self
  IN  IF s1.code_hash.tag = "BackReference"
        THEN LET o == oracle[<<s1.code_hash.req, s1.code_hash.idx>>]
             IN  IF o.ok /\ o.val.kind = "Hash"
                   THEN [s1 EXCEPT !.code_hash = Scalar(o.val.val)]
                   ELSE s1
        ELSE s1

contract_code_complete_skips_code_hash(self) ==
  LET block_hash == Field_into_scalar(self.block_hash)
  IN  IF ~block_hash.ok THEN Err(NoSuchOutput)
      ELSE Ok([kind |-> "Code", block_hash |-> block_hash.val,
               code_hash |-> IF self.code_hash.tag = "Scalar"
                               THEN self.code_hash.val ELSE 0])

contract_code_complete(self) ==
  LET block_hash == Field_into_scalar(self.block_hash)
      code_hash == Field_into_scalar(self.code_hash)
  IN  IF ~block_hash.ok THEN Err(NoSuchOutput)
      ELSE IF ~code_hash.ok THEN Err(NoSuchOutput)
      ELSE Ok([kind |-> "Code", block_hash |-> block_hash.val,
               code_hash |-> code_hash.val])

contract_code_adjust_refs(self, mapping) ==
  [self EXCEPT !.block_hash = Field_adjust_req(self.block_hash, mapping),
               !.code_hash = Field_adjust_req(self.code_hash, mapping)]

contract_code_fill_outputs(self) == <<>>

\* --------------------------------------------------------------- execution
execution_check_outputs(self, f) ==
  IF self.block_hash.tag = "BackReference"
    THEN f[<<self.block_hash.req, self.block_hash.idx, "Hash">>]
    ELSE Ok(Unit)

execution_note_outputs(self) == <<>>

execution_fill(self, oracle) ==
  IF self.block_hash.tag = "BackReference"
    THEN LET o == oracle[<<self.block_hash.req, self.block_hash.idx>>]
         IN  IF o.ok /\ o.val.kind = "Hash"
               THEN [self EXCEPT !.block_hash = Scalar(o.val.val)]
               ELSE self
    ELSE self

execution_complete_swapped(self) ==
  LET block_hash == Field_into_scalar(self.block_hash)
  IN  IF ~block_hash.ok THEN Err(NoSuchOutput)
      ELSE Ok([kind |-> "Execution", block_hash |-> block_hash.val,
               from |-> self.from, action |-> self.action, gas |-> self.gas_price,
               gas_price |-> self.gas, value |-> self.value,
               data |-> self.data])

execution_complete(self) ==
  LET block_hash == Field_into_scalar(self.block_hash)
  IN  IF ~block_hash.ok THEN Err(NoSuchOutput)
      ELSE Ok([kind |-> "Execution", block_hash |-> block_hash.val,
               from |-> self.from, action |-> self.action, gas |-> self.gas,
               gas_price |-> self.gas_price, value |-> self.value,
               data |-> self.data])

execution_adjust_refs(self, mapping) ==
  [self EXCEPT !.block_hash = Field_adjust_req(self.block_hash, mapping)]

execution_fill_outputs(self) == <<>>

\* ------------------------------------------------------------ epoch_signal
epoch_signal_check_outputs(self, f) ==
  IF self.block_hash.tag = "BackReference"
    THEN f[<<self.block_hash.req, self.block_hash.idx, "Hash">>]
    ELSE Ok(Unit)

epoch_signal_note_outputs(self) == <<>>

epoch_signal_fill(self, oracle) ==
  IF self.block_hash.tag = "BackReference"
    THEN LET o == oracle[<<self.block_hash.req, self.block_hash.idx>>]
         IN  IF o.ok /\ o.val.kind = "Hash"
               THEN [self EXCEPT !.block_hash = Scalar(o.val.val)]
               ELSE self
    ELSE self

epoch_signal_complete(self) ==
  LET block_hash == Field_into_scalar(self.block_hash)
  IN  IF ~block_hash.ok THEN Err(NoSuchOutput)
      ELSE Ok([kind |-> "Signal", block_hash |-> block_hash.val])

epoch_signal_adjust_refs(self, mapping) ==
  [self EXCEPT !.block_hash = Field_adjust_req(self.block_hash, mapping)]

epoch_signal_fill_outputs(self) == <<>>

\* ----------------------------------------------------------------- Request
IncompleteHeadersRequest ==
  [kind : {"Headers"}, start : FieldOf(ReqHashOrNumbers), skip : {0},
   max : {100}, reverse : {FALSE}]
IncompleteHeaderProofRequest == [kind : {"HeaderProof"}, num : FieldOf(ReqNumbers)]
IncompleteTransactionIndexRequest ==
  [kind : {"TransactionIndex"}, hash : FieldOf(ReqHashes)]
IncompleteReceiptsRequest == [kind : {"Receipts"}, hash : FieldOf(ReqHashes)]
IncompleteBodyRequest == [kind : {"Body"}, hash : FieldOf(ReqHashes)]
IncompleteAccountRequest ==
  [kind : {"Account"}, block_hash : FieldOf(ReqHashes),
   address_hash : FieldOf(ReqHashes)]
IncompleteStorageRequest ==
  [kind : {"Storage"}, block_hash : FieldOf(ReqHashes),
   address_hash : FieldOf(ReqHashes), key_hash : FieldOf(ReqHashes)]
IncompleteCodeRequest ==
  [kind : {"Code"}, block_hash : FieldOf(ReqHashes), code_hash : FieldOf(ReqHashes)]
IncompleteExecutionRequest ==
  [kind : {"Execution"}, block_hash : FieldOf(ReqHashes), from : {0},
   action : {Action_Create}, gas : {100000}, gas_price : {0}, value : {100000001},
   data : {<<1, 2, 3, 2, 1>>}]
IncompleteSignalRequest == [kind : {"Signal"}, block_hash : FieldOf(ReqHashes)]

Request ==
  IncompleteHeadersRequest \cup IncompleteHeaderProofRequest
    \cup IncompleteTransactionIndexRequest \cup IncompleteReceiptsRequest
    \cup IncompleteBodyRequest \cup IncompleteAccountRequest
    \cup IncompleteStorageRequest \cup IncompleteCodeRequest
    \cup IncompleteExecutionRequest \cup IncompleteSignalRequest

Request_kind_copied_arm(self) ==
  CASE self.kind = "Headers" -> "Headers"
    [] self.kind = "HeaderProof" -> "HeaderProof"
    [] self.kind = "TransactionIndex" -> "TransactionIndex"
    [] self.kind = "Receipts" -> "Receipts"
    [] self.kind = "Body" -> "Body"
    [] self.kind = "Account" -> "Account"
    [] self.kind = "Storage" -> "Account"
    [] self.kind = "Code" -> "Code"
    [] self.kind = "Execution" -> "Execution"
    [] self.kind = "Signal" -> "Signal"

Request_kind(self) ==
  CASE self.kind = "Headers" -> "Headers"
    [] self.kind = "HeaderProof" -> "HeaderProof"
    [] self.kind = "TransactionIndex" -> "TransactionIndex"
    [] self.kind = "Receipts" -> "Receipts"
    [] self.kind = "Body" -> "Body"
    [] self.kind = "Account" -> "Account"
    [] self.kind = "Storage" -> "Storage"
    [] self.kind = "Code" -> "Code"
    [] self.kind = "Execution" -> "Execution"
    [] self.kind = "Signal" -> "Signal"

CompleteRequest_kind_copied_arm(self) ==
  CASE self.kind = "Headers" -> "Headers"
    [] self.kind = "HeaderProof" -> "HeaderProof"
    [] self.kind = "TransactionIndex" -> "TransactionIndex"
    [] self.kind = "Receipts" -> "Receipts"
    [] self.kind = "Body" -> "Body"
    [] self.kind = "Account" -> "Account"
    [] self.kind = "Storage" -> "Storage"
    [] self.kind = "Code" -> "Storage"
    [] self.kind = "Execution" -> "Execution"
    [] self.kind = "Signal" -> "Signal"

CompleteRequest_kind(self) ==
  CASE self.kind = "Headers" -> "Headers"
    [] self.kind = "HeaderProof" -> "HeaderProof"
    [] self.kind = "TransactionIndex" -> "TransactionIndex"
    [] self.kind = "Receipts" -> "Receipts"
    [] self.kind = "Body" -> "Body"
    [] self.kind = "Account" -> "Account"
    [] self.kind = "Storage" -> "Storage"
    [] self.kind = "Code" -> "Code"
    [] self.kind = "Execution" -> "Execution"
    [] self.kind = "Signal" -> "Signal"

\* ------------------------------------------- the calls check_outputs makes
\* `if let Field::BackReference(req, idx) = field { f(req, idx, kind) }`:
\* the call made for one field, with its result; none for a Scalar
Check_call(field, kind, f) ==
  IF field.tag = "BackReference"
    THEN <<[req |-> field.req, idx |-> field.idx, kind |-> kind,
            result |-> f[<<field.req, field.idx, kind>>]]>>
    ELSE <<>>

\* the `?` after a call: a failure returns at once, the rest is not run
Check_then(calls, rest) ==
  IF calls # <<>> /\ ~calls[Len(calls)].result.ok THEN calls ELSE calls \o rest

header_proof_check_outputs_calls(self, f) == Check_call(self.num, "Number", f)

account_check_outputs_calls(self, f) ==
  Check_then(Check_call(self.block_hash, "Hash", f),
             Check_call(self.address_hash, "Hash", f))

storage_check_outputs_calls(self, f) ==
  Check_then(Check_call(self.block_hash, "Hash", f),
             Check_then(Check_call(self.address_hash, "Hash", f),
                        Check_call(self.key_hash, "Hash", f)))

contract_code_check_outputs_calls(self, f) ==
  Check_then(Check_call(self.block_hash, "Hash", f),
             Check_call(self.code_hash, "Hash", f))

\* the calls Request::check_outputs makes to f, in order, with their results
Request_check_outputs_calls(self, f) ==
  CASE self.kind = "Headers" ->
         IF self.start.tag = "Scalar" THEN <<>>
         ELSE IF f[<<self.start.req, self.start.idx, "Hash">>].ok
           THEN Check_call(self.start, "Hash", f)
           ELSE Check_call(self.start, "Hash", f) \o Check_call(self.start, "Number", f)
    [] self.kind = "HeaderProof" -> header_proof_check_outputs_calls(self, f)
    [] self.kind \in {"TransactionIndex", "Receipts", "Body"} ->
         Check_call(self.hash, "Hash", f)
    [] self.kind = "Account" -> account_check_outputs_calls(self, f)
    [] self.kind = "Storage" -> storage_check_outputs_calls(self, f)
    [] self.kind = "Code" -> contract_code_check_outputs_calls(self, f)
    [] self.kind \in {"Execution", "Signal"} -> Check_call(self.block_hash, "Hash", f)

Request_check_outputs(self, f) ==
  CASE self.kind = "Headers" -> header_check_outputs(self, f)
    [] self.kind = "HeaderProof" -> header_proof_check_outputs(self, f)
    [] self.kind = "TransactionIndex" -> transaction_index_check_outputs(self, f)
    [] self.kind = "Receipts" -> block_receipts_check_outputs(self, f)
    [] self.kind = "Body" -> block_body_check_outputs(self, f)
    [] self.kind = "Account" -> account_check_outputs(self, f)
    [] self.kind = "Storage" -> storage_check_outputs(self, f)
    [] self.kind = "Code" -> contract_code_check_outputs(self, f)
    [] self.kind = "Execution" -> execution_check_outputs(self, f)
    [] self.kind = "Signal" -> epoch_signal_check_outputs(self, f)

Request_note_outputs(self) ==
  CASE self.kind = "Headers" -> header_note_outputs(self)
    [] self.kind = "HeaderProof" -> header_proof_note_outputs(self)
    [] self.kind = "TransactionIndex" -> transaction_index_note_outputs(self)
    [] self.kind = "Receipts" -> block_receipts_note_outputs(self)
    [] self.kind = "Body" -> block_body_note_outputs(self)
    [] self.kind = "Account" -> account_note_outputs(self)
    [] self.kind = "Storage" -> storage_note_outputs(self)
    [] self.kind = "Code" -> contract_code_note_outputs(self)
    [] self.kind = "Execution" -> execution_note_outputs(self)
    [] self.kind = "Signal" -> epoch_signal_note_outputs(self)

Request_fill(self, oracle) ==
  CASE self.kind = "Headers" -> header_fill(self, oracle)
    [] self.kind = "HeaderProof" -> header_proof_fill(self, oracle)
    [] self.kind = "TransactionIndex" -> transaction_index_fill(self, oracle)
    [] self.kind = "Receipts" -> block_receipts_fill(self, oracle)
    [] self.kind = "Body" -> block_body_fill(self, oracle)
    [] self.kind = "Account" -> account_fill(self, oracle)
    [] self.kind = "Storage" -> storage_fill(self, oracle)
    [] self.kind = "Code" -> contract_code_fill(self, oracle)
    [] self.kind = "Execution" -> execution_fill(self, oracle)
    [] self.kind = "Signal" -> epoch_signal_fill(self, oracle)

Request_complete(self) ==
  CASE self.kind = "Headers" -> header_complete(self)
    [] self.kind = "HeaderProof" -> header_proof_complete(self)
    [] self.kind = "TransactionIndex" -> transaction_index_complete(self)
    [] self.kind = "Receipts" -> block_receipts_complete(self)
    [] self.kind = "Body" -> block_body_complete(self)
    [] self.kind = "Account" -> account_complete(self)
    [] self.kind = "Storage" -> storage_complete(self)
    [] self.kind = "Code" -> contract_code_complete(self)
    [] self.kind = "Execution" -> execution_complete(self)
    [] self.kind = "Signal" -> epoch_signal_complete(self)

Request_adjust_refs(self, mapping) ==
  CASE self.kind = "Headers" -> header_adjust_refs(self, mapping)
    [] self.kind = "HeaderProof" -> header_proof_adjust_refs(self, mapping)
    [] self.kind = "TransactionIndex" -> transaction_index_adjust_refs(self, mapping)
    [] self.kind = "Receipts" -> block_receipts_adjust_refs(self, mapping)
    [] self.kind = "Body" -> block_body_adjust_refs(self, mapping)
    [] self.kind = "Account" -> account_adjust_refs(self, mapping)
    [] self.kind = "Storage" -> storage_adjust_refs(self, mapping)
    [] self.kind = "Code" -> contract_code_adjust_refs(self, mapping)
    [] self.kind = "Execution" -> execution_adjust_refs(self, mapping)
    [] self.kind = "Signal" -> epoch_signal_adjust_refs(self, mapping)

\* ---------------------------------------------------------------- Response
HeadersResponse == [kind : {"Headers"}, headers : {<<>>}]
HeaderProofResponse ==
  [kind : {"HeaderProof"}, proof : {<<>>}, hash : H256s, td : {100}]
TransactionIndexResponse ==
  [kind : {"TransactionIndex"}, num : U64s, hash : H256s, index : {4}]
ReceiptsResponse == [kind : {"Receipts"}, receipts : {<<>>}]
BodyResponse == [kind : {"Body"}, body : {RlpList(<<RlpList(<<>>), RlpList(<<>>)>>)}]
AccountResponse ==
  [kind : {"Account"}, proof : {<<>>}, nonce : {100}, balance : {123},
   code_hash : H256s, storage_root : H256s]
StorageResponse == [kind : {"Storage"}, proof : {<<>>}, value : H256s]
CodeResponse == [kind : {"Code"}, code : {<<1, 2, 3, 4, 5>>}]
ExecutionResponse == [kind : {"Execution"}, items : {<<>>}]
SignalResponse == [kind : {"Signal"}, signal : {<<1, 2, 3>>}]

Response ==
  HeadersResponse \cup HeaderProofResponse \cup TransactionIndexResponse
    \cup ReceiptsResponse \cup BodyResponse \cup AccountResponse
    \cup StorageResponse \cup CodeResponse \cup ExecutionResponse
    \cup SignalResponse

Response_fill_outputs(self) ==
  CASE self.kind = "Headers" -> header_fill_outputs(self)
    [] self.kind = "HeaderProof" -> header_proof_fill_outputs(self)
    [] self.kind = "TransactionIndex" -> transaction_index_fill_outputs(self)
    [] self.kind = "Receipts" -> block_receipts_fill_outputs(self)
    [] self.kind = "Body" -> block_body_fill_outputs(self)
    [] self.kind = "Account" -> account_fill_outputs(self)
    [] self.kind = "Storage" -> storage_fill_outputs(self)
    [] self.kind = "Code" -> contract_code_fill_outputs(self)
    [] self.kind = "Execution" -> execution_fill_outputs(self)
    [] self.kind = "Signal" -> epoch_signal_fill_outputs(self)

Response_kind(self) ==
  CASE self.kind = "Headers" -> "Headers"
    [] self.kind = "HeaderProof" -> "HeaderProof"
    [] self.kind = "TransactionIndex" -> "TransactionIndex"
    [] self.kind = "Receipts" -> "Receipts"
    [] self.kind = "Body" -> "Body"
    [] self.kind = "Account" -> "Account"
    [] self.kind = "Storage" -> "Storage"
    [] self.kind = "Code" -> "Code"
    [] self.kind = "Execution" -> "Execution"
    [] self.kind = "Signal" -> "Signal"

\* CheckedRequest for Request: Environment = (), Extract = (), Error = WrongKind
check_response_any(self, complete, env, response) == Ok(Unit)

check_response(self, complete, env, response) ==
  IF Request_kind(self) = Response_kind(response)
    THEN Ok(Unit)
    ELSE Err(WrongKind)

\* ------------------------------------------- wire codec of the request types
HashOrNumber_rlp_append_as_integer(self) == Value_rlp_append("u64", self.val)

HashOrNumber_rlp_append(self) ==
  IF self.tag = "Hash" THEN Value_rlp_append("H256", self.val)
  ELSE Value_rlp_append("u64", self.val)

\* as_val::<H256>().map(Hash).or_else(|_| as_val().map(Number))
HashOrNumber_or_else(hash, number) ==
  IF hash.ok THEN Ok(HashOrNumber_Hash(hash.val))
  ELSE IF number.ok THEN Ok(HashOrNumber_Number(number.val))
  ELSE number

HashOrNumber_decode(rlp) ==
  HashOrNumber_or_else(Value_decode("H256", rlp), Value_decode("u64", rlp))

\* Field<T> for the types T it is used with; T names the type of the scalar
FieldTypes ==
  {"Field<H256>", "Field<u64>", "Field<usize>", "Field<HashOrNumber>"}
FieldInner(T) ==
  CASE T = "Field<H256>" -> "H256" [] T = "Field<u64>" -> "u64"
    [] T = "Field<usize>" -> "usize" [] T = "Field<HashOrNumber>" -> "HashOrNumber"

Field_rlp_append_idx_first(self, T) ==
  IF self.tag = "Scalar"
    THEN RlpList(<<Value_rlp_append("u8", 0),
                   IF T = "HashOrNumber" THEN HashOrNumber_rlp_append(self.val)
                   ELSE Value_rlp_append(T, self.val)>>)
    ELSE RlpList(<<Value_rlp_append("u8", 1),
                   RlpList(<<Value_rlp_append("usize", self.idx),
                             Value_rlp_append("usize", self.req)>>)>>)

Field_rlp_append(self, T) ==
  IF self.tag = "Scalar"
    THEN RlpList(<<Value_rlp_append("u8", 0),
                   IF T = "HashOrNumber" THEN HashOrNumber_rlp_append(self.val)
                   ELSE Value_rlp_append(T, self.val)>>)
    ELSE RlpList(<<Value_rlp_append("u8", 1),
                   RlpList(<<Value_rlp_append("usize", self.req),
                             Value_rlp_append("usize", self.idx)>>)>>)

\* Decodable of the scalar of a Field
Scalar_decode(T, rlp) ==
  IF T = "HashOrNumber" THEN HashOrNumber_decode(rlp) ELSE Value_decode(T, rlp)

\* Rlp::val_at of a scalar: the item at a position, decoded
Scalar_val_at(T, at) == IF at.ok THEN Scalar_decode(T, at.val) ELSE at

Field_Scalar_of(v) == IF v.ok THEN Ok(Scalar(v.val)) ELSE v

Field_BackReference_of(inner_rlp) ==
  IF ~inner_rlp.ok THEN inner_rlp
  ELSE IF ~Scalar_val_at("usize", Rlp_at(inner_rlp.val, 0)).ok
    THEN Scalar_val_at("usize", Rlp_at(inner_rlp.val, 0))
  ELSE IF ~Scalar_val_at("usize", Rlp_at(inner_rlp.val, 1)).ok
    THEN Scalar_val_at("usize", Rlp_at(inner_rlp.val, 1))
  ELSE Ok(BackReference(Scalar_val_at("usize", Rlp_at(inner_rlp.val, 0)).val,
                        Scalar_val_at("usize", Rlp_at(inner_rlp.val, 1)).val))

Field_decode_match_lax(disc, rlp, T) ==
  IF ~disc.ok THEN disc
  ELSE IF disc.val = 0 THEN Field_Scalar_of(Scalar_val_at(T, Rlp_at(rlp, 1)))
  ELSE Field_BackReference_of(Rlp_at(rlp, 1))

\* the arms of the match on the discriminant
Field_decode_match(disc, rlp, T) ==
  IF ~disc.ok THEN disc
  ELSE IF disc.val = 0 THEN Field_Scalar_of(Scalar_val_at(T, Rlp_at(rlp, 1)))
  ELSE IF disc.val = 1 THEN Field_BackReference_of(Rlp_at(rlp, 1))
  ELSE Err("Custom(Unknown discriminant for PIP field.)")

Field_decode(rlp, T) ==
  Field_decode_match(Scalar_val_at("u8", Rlp_at(rlp, 0)), rlp, T)

\* Kind as u8
Kind_as_u8_from_one(self) ==
  CASE self = "Headers" -> 1 [] self = "HeaderProof" -> 2
    [] self = "TransactionIndex" -> 3 [] self = "Receipts" -> 4
    [] self = "Body" -> 5 [] self = "Account" -> 6 [] self = "Storage" -> 7
    [] self = "Code" -> 8 [] self = "Execution" -> 9 [] self = "Signal" -> 10

Kind_as_u8(self) ==
  CASE self = "Headers" -> 0 [] self = "HeaderProof" -> 1
    [] self = "TransactionIndex" -> 2 [] self = "Receipts" -> 3
    [] self = "Body" -> 4 [] self = "Account" -> 5 [] self = "Storage" -> 6
    [] self = "Code" -> 7 [] self = "Execution" -> 8 [] self = "Signal" -> 9

Kind_rlp_append(self) == Value_rlp_append("u8", Kind_as_u8(self))

Kind_from_u8_lax(v) ==
  IF ~v.ok THEN v
  ELSE CASE v.val = 0 -> Ok("Headers") [] v.val = 1 -> Ok("HeaderProof")
         [] v.val = 2 -> Ok("TransactionIndex") [] v.val = 3 -> Ok("Receipts")
         [] v.val = 4 -> Ok("Body") [] v.val = 5 -> Ok("Account")
         [] v.val = 6 -> Ok("Storage") [] v.val = 7 -> Ok("Code")
         [] v.val = 8 -> Ok("Execution") [] v.val = 9 -> Ok("Signal")
         [] OTHER -> Ok("Signal")

\* the match of Kind::decode on the u8
Kind_from_u8(v) ==
  IF ~v.ok THEN v
  ELSE CASE v.val = 0 -> Ok("Headers") [] v.val = 1 -> Ok("HeaderProof")
         [] v.val = 2 -> Ok("TransactionIndex") [] v.val = 3 -> Ok("Receipts")
         [] v.val = 4 -> Ok("Body") [] v.val = 5 -> Ok("Account")
         [] v.val = 6 -> Ok("Storage") [] v.val = 7 -> Ok("Code")
         [] v.val = 8 -> Ok("Execution") [] v.val = 9 -> Ok("Signal")
         [] OTHER -> Err("Custom(Unknown PIP request ID.)")

Kind_decode(rlp) == Kind_from_u8(Value_decode("u8", rlp))

\* The members, in declaration order, of the structs whose codec is derived
\* (RlpEncodable / RlpEncodableWrapper) or written by hand in the same shape
\* (header_proof::Response, epoch_signal::Incomplete, epoch_signal::Response).
Layout(side, kind) ==
  IF side = "Incomplete"
    THEN [wrapper |-> FALSE,
          members |->
            CASE kind = "Headers" ->
                   << <<"start", "Field<HashOrNumber>">>, <<"skip", "u64">>,
                      <<"max", "u64">>, <<"reverse", "bool">> >>
              [] kind = "HeaderProof" -> << <<"num", "Field<u64>">> >>
              [] kind \in {"TransactionIndex", "Receipts", "Body"} ->
                   << <<"hash", "Field<H256>">> >>
              [] kind = "Account" ->
                   << <<"block_hash", "Field<H256>">>,
                      <<"address_hash", "Field<H256>">> >>
              [] kind = "Storage" ->
                   << <<"block_hash", "Field<H256>">>,
                      <<"address_hash", "Field<H256>">>,
                      <<"key_hash", "Field<H256>">> >>
              [] kind = "Code" ->
                   << <<"block_hash", "Field<H256>">>,
                      <<"code_hash", "Field<H256>">> >>
              [] kind = "Execution" ->
                   << <<"block_hash", "Field<H256>">>, <<"from", "Address">>,
                      <<"action", "Action">>, <<"gas", "U256">>,
                      <<"gas_price", "U256">>, <<"value", "U256">>,
                      <<"data", "Bytes">> >>
              [] kind = "Signal" -> << <<"block_hash", "Field<H256>">> >>]
    ELSE CASE kind = "HeaderProof" ->
                [wrapper |-> FALSE,
                 members |-> << <<"proof", "Vec<Bytes>">>, <<"hash", "H256">>,
                                <<"td", "U256">> >>]
           [] kind = "TransactionIndex" ->
                [wrapper |-> FALSE,
                 members |-> << <<"num", "u64">>, <<"hash", "H256">>,
                                <<"index", "u64">> >>]
           [] kind = "Receipts" ->
                [wrapper |-> TRUE, members |-> << <<"receipts", "Vec<Receipt>">> >>]
           [] kind = "Account" ->
                [wrapper |-> FALSE,
                 members |-> << <<"proof", "Vec<Bytes>">>, <<"nonce", "U256">>,
                                <<"balance", "U256">>, <<"code_hash", "H256">>,
                                <<"storage_root", "H256">> >>]
           [] kind = "Storage" ->
                [wrapper |-> FALSE,
                 members |-> << <<"proof", "Vec<Bytes>">>, <<"value", "H256">> >>]
           [] kind = "Code" ->
                [wrapper |-> TRUE, members |-> << <<"code", "Bytes">> >>]
           [] kind = "Signal" ->
                [wrapper |-> TRUE, members |-> << <<"signal", "Bytes">> >>]

\* stream.append(&self.member) / append_list for a member of type T
Member_rlp_append(T, v) ==
  IF T \in FieldTypes THEN Field_rlp_append(v, FieldInner(T))
  ELSE Value_rlp_append(T, v)

\* rlp.val_at(i) / list_at(i) result for a member of type T, given the item
Member_decode(T, rlp) ==
  IF T \in FieldTypes THEN Field_decode(rlp, FieldInner(T))
  ELSE Value_decode(T, rlp)

\* derived Encodable: begin_list(n) and the members in order; a wrapper
\* appends its one member
Struct_rlp_append(self, layout) ==
  IF layout.wrapper
    THEN Member_rlp_append(layout.members[1][2], self[layout.members[1][1]])
    ELSE RlpList([i \in DOMAIN layout.members |->
                    Member_rlp_append(layout.members[i][2],
                                      self[layout.members[i][1]])])

\* val_at / list_at of a member: the item at a position, decoded
Member_val_at(T, at) == IF at.ok THEN Member_decode(T, at.val) ELSE at

\* the struct built from the decoded members, or the first error
Struct_of(ms, layout, kind) ==
  IF ~Result_collect(ms).ok THEN Result_collect(ms)
  ELSE Ok([n \in {layout.members[i][1] : i \in DOMAIN layout.members} \cup {"kind"} |->
             IF n = "kind" THEN kind
             ELSE ms[CHOOSE i \in DOMAIN ms : layout.members[i][1] = n].val])

\* derived Decodable: member i is read at position i; a wrapper reads itself
Struct_decode(rlp, layout, kind) ==
  Struct_of([i \in DOMAIN layout.members |->
               IF layout.wrapper THEN Member_decode(layout.members[i][2], rlp)
               ELSE Member_val_at(layout.members[i][2], Rlp_at(rlp, i - 1))],
            layout, kind)

\* header::Response: the raw headers, each checked to decode as a full header
header_Response_rlp_append(self) == RlpList(self.headers)

header_Response_decode(rlp) ==
  IF ~rlp.list THEN Ok([kind |-> "Headers", headers |-> <<>>])
  ELSE IF \E i \in DOMAIN rlp.items : rlp.items[i] \notin OpaqueValid("Header")
    THEN Err("RlpIncorrectListLen")
    ELSE Ok([kind |-> "Headers", headers |-> rlp.items])

\* block_body::Response: the raw body, checked to hold a list of transactions
\* and a list of headers
block_body_Response_rlp_append(self) == self.body

\* list_at of a list of opaque items of type T
Opaque_list_at(T, at) ==
  IF ~at.ok THEN at
  ELSE IF at.val.list /\ \E i \in DOMAIN at.val.items :
            at.val.items[i] \notin OpaqueValid(T)
    THEN Err("RlpIncorrectListLen")
  ELSE Ok(Unit)

block_body_Response_checked(txs, uncles, rlp) ==
  IF ~txs.ok THEN txs
  ELSE IF ~uncles.ok THEN uncles
  ELSE Ok([kind |-> "Body", body |-> rlp])

block_body_Response_decode(rlp) ==
  block_body_Response_checked(
    Opaque_list_at("UnverifiedTransaction", Rlp_at(rlp, 0)),
    Opaque_list_at("Header", Rlp_at(rlp, 1)), rlp)

\* execution::Response: a list of byte strings
execution_Response_rlp_append(self) ==
  RlpList([i \in DOMAIN self.items |-> RlpData(self.items[i])])

\* data() is the payload of an item, of a list item too
execution_Response_decode(rlp) ==
  IF ~rlp.list THEN Ok([kind |-> "Execution", items |-> <<>>])
  ELSE Ok([kind |-> "Execution",
           items |-> [i \in DOMAIN rlp.items |->
                        IF rlp.items[i].list THEN Rlp_concat(rlp.items[i].items)
                        ELSE rlp.items[i].data]])

\* Encodable / Decodable of the per-kind Response types
ResponseBody_rlp_append(self) ==
  CASE self.kind = "Headers" -> header_Response_rlp_append(self)
    [] self.kind = "Body" -> block_body_Response_rlp_append(self)
    [] self.kind = "Execution" -> execution_Response_rlp_append(self)
    [] OTHER -> Struct_rlp_append(self, Layout("Response", self.kind))

ResponseBody_decode(kind, rlp) ==
  CASE kind = "Headers" -> header_Response_decode(rlp)
    [] kind = "Body" -> block_body_Response_decode(rlp)
    [] kind = "Execution" -> execution_Response_decode(rlp)
    [] OTHER -> Struct_decode(rlp, Layout("Response", kind), kind)

Request_rlp_append(self) ==
  RlpList(<<Kind_rlp_append(Request_kind(self)),
            Struct_rlp_append(self, Layout("Incomplete", self.kind))>>)

\* val_at::<Kind>(0)
Kind_val_at(at) == IF at.ok THEN Kind_decode(at.val) ELSE at

\* val_at of a derived struct
Struct_val_at(layout, kind, at) ==
  IF at.ok THEN Struct_decode(at.val, layout, kind) ELSE at

Request_decode_match_copied_arm(kind, rlp) ==
  IF ~kind.ok THEN kind
  ELSE IF kind.val = "Code"
    THEN Struct_val_at(Layout("Incomplete", "Account"), "Account", Rlp_at(rlp, 1))
    ELSE Struct_val_at(Layout("Incomplete", kind.val), kind.val, Rlp_at(rlp, 1))

\* the arms of the match on the kind: val_at(1) as that kind's Incomplete
Request_decode_match(kind, rlp) ==
  IF ~kind.ok THEN kind
  ELSE Struct_val_at(Layout("Incomplete", kind.val), kind.val, Rlp_at(rlp, 1))

Request_decode(rlp) == Request_decode_match(Kind_val_at(Rlp_at(rlp, 0)), rlp)

Response_rlp_append(self) ==
  RlpList(<<Kind_rlp_append(Response_kind(self)), ResponseBody_rlp_append(self)>>)

\* val_at of a per-kind Response
ResponseBody_val_at(kind, at) ==
  IF at.ok THEN ResponseBody_decode(kind, at.val) ELSE at

\* the arms of the match on the kind: val_at(1) as that kind's Response
Response_decode_match(kind, rlp) ==
  IF ~kind.ok THEN kind ELSE ResponseBody_val_at(kind.val, Rlp_at(rlp, 1))

Response_decode(rlp) == Response_decode_match(Kind_val_at(Rlp_at(rlp, 0)), rlp)

\* T: Encodable / Decodable for the types that travel as values or in lists;
\* T is [type, arg], arg naming the kind or the scalar type where needed
Encodable_rlp_append(T, v) ==
  CASE T.type = "Request" -> Request_rlp_append(v)
    [] T.type = "Response" -> Response_rlp_append(v)
    [] T.type = "Incomplete" -> Struct_rlp_append(v, Layout("Incomplete", T.arg))
    [] T.type = "ResponseBody" -> ResponseBody_rlp_append(v)
    [] T.type = "Field" -> Field_rlp_append(v, T.arg)
    [] T.type = "HashOrNumber" -> HashOrNumber_rlp_append(v)

Decodable_decode(T, rlp) ==
  CASE T.type = "Request" -> Request_decode(rlp)
    [] T.type = "Response" -> Response_decode(rlp)
    [] T.type = "Incomplete" ->
         Struct_decode(rlp, Layout("Incomplete", T.arg), T.arg)
    [] T.type = "ResponseBody" -> ResponseBody_decode(T.arg, rlp)
    [] T.type = "Field" -> Field_decode(rlp, T.arg)
    [] T.type = "HashOrNumber" -> HashOrNumber_decode(rlp)

\* rlp::encode_list / RlpStream::append_list
encode_list(T, vs) == RlpList([i \in DOMAIN vs |-> Encodable_rlp_append(T, vs[i])])

\* Rlp::as_list: every item decoded; a byte string has no items
as_list(T, rlp) ==
  IF ~rlp.list THEN Ok(<<>>)
  ELSE Result_collect([i \in DOMAIN rlp.items |-> Decodable_decode(T, rlp.items[i])])

\* Rlp::list_at
list_at(T, at) == IF at.ok THEN as_list(T, at.val) ELSE at

\* ------------------------------------------------------ Punishment, Error
\* the variants of Punishment in declaration order ("In ascending order")
PunishmentVariants_swapped == <<"None", "Disable", "Disconnect">>

PunishmentVariants == <<"None", "Disconnect", "Disable">>

Punishment == {PunishmentVariants[i] : i \in DOMAIN PunishmentVariants}

\* discriminant of a variant of the field-less enum: its declaration position
Punishment_discriminant(p) ==
  (CHOOSE i \in DOMAIN PunishmentVariants : PunishmentVariants[i] = p) - 1

\* Error values: variant and payload (payload "-" for the unit variants)
DecoderErrors ==
  {"RlpIsTooShort", "RlpExpectedToBeList", "RlpInvalidIndirection",
   "RlpIncorrectListLen", "Custom(Unknown PIP request ID.)"}
NetworkErrors == {"Io", "Expired", "PeerNotFound", "BadProtocol"}
PacketCodes == {0, 21, 22, 255}
ProtocolVersions == {0, 1, 2, 255}

Error ==
  [variant : {"Rlp"}, payload : DecoderErrors]
    \cup [variant : {"Network"}, payload : NetworkErrors]
    \cup [variant : {"UnrecognizedPacket"}, payload : PacketCodes]
    \cup [variant : {"UnsupportedProtocolVersion"}, payload : ProtocolVersions]
    \cup [variant : {"NoCredits", "UnexpectedHandshake", "WrongNetwork",
                     "UnknownPeer", "UnsolicitedResponse", "BadBackReference",
                     "NotServer", "BadProtocolVersion", "Overburdened",
                     "RejectedByHandlers"},
          payload : {"-"}]

Error_UnsolicitedResponse == [variant |-> "UnsolicitedResponse", payload |-> "-"]
Error_BadBackReference == [variant |-> "BadBackReference", payload |-> "-"]

Error_punishment_by_payload(self) ==
  CASE self.variant = "Rlp" -> "Disable"
    [] self.variant = "Network" -> "None"
    [] self.variant = "NoCredits" -> "Disable"
    [] self.variant = "UnrecognizedPacket" -> "Disconnect"
    [] self.variant = "UnexpectedHandshake" -> "Disconnect"
    [] self.variant = "WrongNetwork" -> "Disable"
    [] self.variant = "UnknownPeer" -> "Disconnect"
    [] self.variant = "UnsolicitedResponse" -> "Disable"
    [] self.variant = "BadBackReference" -> "Disable"
    [] self.variant = "NotServer" -> "Disable"
    [] self.variant = "UnsupportedProtocolVersion" ->
         IF self.payload = 0 THEN "Disable" ELSE "Disconnect"
    [] self.variant = "BadProtocolVersion" -> "Disable"
    [] self.variant = "Overburdened" -> "None"
    [] self.variant = "RejectedByHandlers" -> "Disconnect"

Error_punishment_credits(self) ==
  CASE self.variant = "Rlp" -> "Disable"
    [] self.variant = "Network" -> "None"
    [] self.variant = "NoCredits" -> "Disconnect"
    [] self.variant = "UnrecognizedPacket" -> "Disconnect"
    [] self.variant = "UnexpectedHandshake" -> "Disconnect"
    [] self.variant = "WrongNetwork" -> "Disable"
    [] self.variant = "UnknownPeer" -> "Disconnect"
    [] self.variant = "UnsolicitedResponse" -> "Disable"
    [] self.variant = "BadBackReference" -> "Disable"
    [] self.variant = "NotServer" -> "Disable"
    [] self.variant = "UnsupportedProtocolVersion" -> "Disable"
    [] self.variant = "BadProtocolVersion" -> "Disable"
    [] self.variant = "Overburdened" -> "None"
    [] self.variant = "RejectedByHandlers" -> "Disconnect"

Error_punishment_harsh(self) ==
  CASE self.variant = "Rlp" -> "Disable"
    [] self.variant = "Network" -> "None"
    [] self.variant = "NoCredits" -> "Disable"
    [] self.variant = "UnrecognizedPacket" -> "Disconnect"
    [] self.variant = "UnexpectedHandshake" -> "Disconnect"
    [] self.variant = "WrongNetwork" -> "Disable"
    [] self.variant = "UnknownPeer" -> "Disconnect"
    [] self.variant = "UnsolicitedResponse" -> "Disable"
    [] self.variant = "BadBackReference" -> "Disable"
    [] self.variant = "NotServer" -> "Disable"
    [] self.variant = "UnsupportedProtocolVersion" -> "Disable"
    [] self.variant = "BadProtocolVersion" -> "Disable"
    [] self.variant = "Overburdened" -> "None"
    [] self.variant = "RejectedByHandlers" -> "Disable"

Error_punishment_lenient(self) ==
  CASE self.variant = "Rlp" -> "Disable"
    [] self.variant = "Network" -> "None"
    [] self.variant = "NoCredits" -> "Disable"
    [] self.variant = "UnrecognizedPacket" -> "Disconnect"
    [] self.variant = "UnexpectedHandshake" -> "Disconnect"
    [] self.variant = "WrongNetwork" -> "Disable"
    [] self.variant = "UnknownPeer" -> "Disconnect"
    [] self.variant = "UnsolicitedResponse" -> "Disconnect"
    [] self.variant = "BadBackReference" -> "Disconnect"
    [] self.variant = "NotServer" -> "Disable"
    [] self.variant = "UnsupportedProtocolVersion" -> "Disable"
    [] self.variant = "BadProtocolVersion" -> "Disable"
    [] self.variant = "Overburdened" -> "None"
    [] self.variant = "RejectedByHandlers" -> "Disconnect"

Error_punishment(self) ==
  CASE self.variant = "Rlp" -> "Disable"
    [] self.variant = "Network" -> "None"
    [] self.variant = "NoCredits" -> "Disable"
    [] self.variant = "UnrecognizedPacket" -> "Disconnect"
    [] self.variant = "UnexpectedHandshake" -> "Disconnect"
    [] self.variant = "WrongNetwork" -> "Disable"
    [] self.variant = "UnknownPeer" -> "Disconnect"
    [] self.variant = "UnsolicitedResponse" -> "Disable"
    [] self.variant = "BadBackReference" -> "Disable"
    [] self.variant = "NotServer" -> "Disable"
    [] self.variant = "UnsupportedProtocolVersion" -> "Disable"
    [] self.variant = "BadProtocolVersion" -> "Disable"
    [] self.variant = "Overburdened" -> "None"
    [] self.variant = "RejectedByHandlers" -> "Disconnect"

\* =================================================================== state
VARIABLES
  requests,      \* Builder / Batch: the requests, in append order
  output_kinds,  \* Builder: (request index, slot) -> declared OutputKind
  pushed,        \* result of the last Builder push: <<>> or <<[req, pos, result]>>
  status,        \* "building" | "pending" | "accepted" | "abandoned"
  outputs,       \* client Batch: output store (request index, slot) -> Output
  answered,      \* client Batch: number of responses accepted so far
  responses,     \* client Batch: responses placed at their positions
  delivered,     \* client: (complete request, response) pairs handed to the caller
  fault,         \* client: why the batch was abandoned
  lastCheck,     \* last check_response call: <<>> or <<[idx, request, response, result]>>
  srvStatus,     \* server: "running" | "done" | "aborted"
  srvAnswered,   \* server: number of requests answered
  srvOutputs,    \* server: output store
  srvRequest,    \* server: request of the last step, <<>> or <<[received, filled]>>
  srvReply,      \* server: <<>> or <<[complete, response]>> of the last answer
  srvResponses,  \* server: number of responses pushed to the reply packet
  error,         \* session: last protocol error, <<>> or <<Error>>
  reports,       \* session: punishments handed to the punishment sink, in order
  first,         \* merge: the batch kept to be extended, <<>> when none is kept
  merged,        \* merge: the batch produced by a merge or a remapping
  mapping,       \* merge: the usize -> usize mapping last given to adjust_refs
  wire,          \* wire: <<>> or <<[T, sent, rlp, got, outer_sent, outer, outer_got]>>
  recv,          \* wire: <<>> or <<[T, rlp, got]>>, an item received and decoded as a T
  conn,          \* peer: "connected" | "disconnected" | "disabled"
  credits,       \* peer: balance of the credit counter
  queue,         \* peer: outbound queue, the batches accepted and not yet sent
  pending,       \* peer: the batches sent and awaiting responses, in send order
  batches,       \* peer: the batches offered, by id: [st, len, accepted, outputs]
  log,           \* peer: the batches whose responses were delivered, in order
  notice,        \* peer: outcome of the last operation, <<>> or <<[op, batch, result]>>
  pipe,          \* a request under fill / adjust_refs / complete: <<>> or <<[...]>>
  cache,         \* MemoryLruCache: [inner, cap, cur_size, max_size, last]
  manager        \* migration Manager: [migrations, added, asked]

builderVars == <<requests, output_kinds, pushed>>
clientVars == <<status, outputs, answered, responses, delivered, fault, lastCheck>>
serverVars ==
  <<srvStatus, srvAnswered, srvOutputs, srvRequest, srvReply, srvResponses>>
sessionVars == <<error, reports>>
mergeVars == <<first, merged, mapping>>
wireVars == <<wire, recv>>
peerVars == <<conn, credits, queue, pending, batches, log, notice>>
utilVars == <<pipe, cache, manager>>
coreVars ==
  <<builderVars, clientVars, serverVars, sessionVars, mergeVars, wireVars,
    peerVars>>
vars ==
  <<builderVars, clientVars, serverVars, sessionVars, mergeVars, wireVars,
    peerVars, utilVars>>

\* --------------------------------------------------------- maps and stores
EmptyMap == [p \in {} |-> 0]

Insert(m, k, v) == [p \in (DOMAIN m) \cup {k} |-> IF p = k THEN v ELSE m[p]]

InsertAll_next_position(m, req_idx, calls) ==
  [p \in (DOMAIN m) \cup {<<req_idx + 1, calls[n][1]>> : n \in DOMAIN calls} |->
     IF p \in DOMAIN m THEN m[p]
     ELSE calls[CHOOSE n \in DOMAIN calls : calls[n][1] = p[2]][2]]

RECURSIVE InsertAll(_, _, _)
\* write the calls <<slot, value>> of one request into a map, in call order
InsertAll(m, req_idx, calls) ==
  IF calls = <<>> THEN m
  ELSE InsertAll(Insert(m, <<req_idx, Head(calls)[1]>>, Head(calls)[2]),
                 req_idx, Tail(calls))

\* the oracle a Batch hands to fill: a read of the output store
StoreOracle(store) ==
  [p \in ReqIdx \X OutIdx |->
     IF p \in DOMAIN store THEN Ok(store[p]) ELSE Err(NoSuchOutput)]

\* the check a Builder hands to check_outputs: the declared kind must match
BuilderCheck(kinds) ==
  [t \in ReqIdx \X OutIdx \X OutputKind |->
     IF <<t[1], t[2]>> \in DOMAIN kinds /\ kinds[<<t[1], t[2]>>] = t[3]
       THEN Ok(Unit)
       ELSE Err(NoSuchOutput)]

\* ------------------------------------------------------------------ session
\* a protocol error reaches the session loop: its sanction goes to the sink
Session_punish(e) ==
  /\ error' = <<e>>
  /\ reports' = Append(reports, Error_punishment(e))

\* ------------------------------------------------------------------ Builder
Builder_push(request) ==
  /\ status = "building"
  /\ IF pushed = <<>> THEN TRUE ELSE pushed[1].result.ok
  /\ Len(requests) < MaxBatch
  /\ LET res == Request_check_outputs(request, BuilderCheck(output_kinds))
         req_idx == Len(requests)
     IN  /\ pushed' = <<[req |-> request, pos |-> req_idx, result |-> res]>>
         /\ IF res.ok
              THEN /\ output_kinds' =
                        InsertAll(output_kinds, req_idx, Request_note_outputs(request))
                   /\ requests' = Append(requests, request)
              ELSE UNCHANGED <<requests, output_kinds>>
  /\ UNCHANGED <<clientVars, serverVars, sessionVars, mergeVars, wireVars, peerVars, utilVars>>

\* the caller gives up a builder whose push was rejected: the batch is not sent
Builder_discard ==
  /\ status = "building"
  /\ IF pushed = <<>> THEN FALSE ELSE ~pushed[1].result.ok
  /\ requests' = <<>>
  /\ output_kinds' = EmptyMap
  /\ pushed' = <<>>
  /\ UNCHANGED <<clientVars, serverVars, sessionVars, mergeVars, wireVars, peerVars, utilVars>>

\* build() freezes the batch; it is dispatched and awaits its responses
Builder_build ==
  /\ status = "building"
  /\ IF pushed = <<>> THEN TRUE ELSE pushed[1].result.ok
  /\ Len(requests) > 0
  /\ status' = "pending"
  /\ UNCHANGED <<builderVars, outputs, answered, responses, delivered, fault,
                 lastCheck, serverVars, sessionVars, mergeVars, wireVars, peerVars, utilVars>>

\* ------------------------------------------------------------ Batch, client
\* One position of ingest: the response for position `answered` arrives.
Batch_ingest(response) ==
  /\ status = "pending"
  /\ answered < Len(requests)
  /\ LET idx == answered
         filled == Request_fill(requests[idx + 1], StoreOracle(outputs))
         complete == Request_complete(filled)
     IN  IF ~complete.ok
           THEN \* the request cannot be completed: the batch is abandoned
                /\ status' = "abandoned"
                /\ fault' = complete.err
                /\ outputs' = EmptyMap
                /\ responses' = <<>>
                /\ delivered' = <<>>
                /\ requests' = <<>>
                /\ answered' = 0
                /\ UNCHANGED <<lastCheck, sessionVars>>
           ELSE LET checked == check_response(filled, complete.val, Unit, response)
                IN  /\ lastCheck' =
                         <<[idx |-> idx, request |-> filled, response |-> response,
                            result |-> checked]>>
                    /\ IF ~checked.ok
                         THEN \* WrongKind: unsolicited response, batch aborts
                              /\ status' = "abandoned"
                              /\ fault' = checked.err
                              /\ outputs' = EmptyMap
                              /\ responses' = <<>>
                              /\ delivered' = <<>>
                              /\ requests' = <<>>
                              /\ answered' = 0
                              /\ Session_punish(Error_UnsolicitedResponse)
                         ELSE /\ requests' = [requests EXCEPT ![idx + 1] = filled]
                              /\ outputs' =
                                   InsertAll(outputs, idx, Response_fill_outputs(response))
                              /\ responses' = Append(responses, response)
                              /\ answered' = answered + 1
                              /\ IF answered + 1 = Len(requests)
                                   THEN /\ status' = "accepted"
                                        /\ delivered' =
                                             [i \in 1 .. Len(requests) |->
                                                <<Request_complete(requests'[i]).val,
                                                  responses'[i]>>]
                                   ELSE UNCHANGED <<status, delivered>>
                              /\ UNCHANGED <<fault, sessionVars>>
  /\ UNCHANGED <<output_kinds, pushed, serverVars, mergeVars, wireVars, peerVars, utilVars>>

\* the responses a collaborator can give to a complete request: same kind
ResponsesTo(complete) ==
  {response \in Response : Response_kind(response) = CompleteRequest_kind(complete)}

\* ------------------------------------------------------------ Batch, server
\* One iteration of answer: the next request of the received packet is
\* filled from the store, completed, answered, and its outputs are stored.
Batch_answer(request) ==
  /\ srvStatus = "running"
  /\ srvAnswered < MaxBatch
  /\ LET idx == srvAnswered
         filled == Request_fill(request, StoreOracle(srvOutputs))
         complete == Request_complete(filled)
     IN  /\ srvRequest' = <<[received |-> request, filled |-> filled]>>
         /\ IF ~complete.ok
              THEN \* BadBackReference terminates the batch
                   /\ srvStatus' = "aborted"
                   /\ srvReply' = <<>>
                   /\ Session_punish(Error_BadBackReference)
                   /\ UNCHANGED <<srvAnswered, srvOutputs, srvResponses>>
              ELSE \* the collaborator answers with a response of the request's kind
                   /\ \E response \in ResponsesTo(complete.val) :
                        /\ srvReply' =
                             <<[complete |-> complete.val, response |-> response]>>
                        /\ srvOutputs' =
                             InsertAll(srvOutputs, idx, Response_fill_outputs(response))
                   /\ srvAnswered' = srvAnswered + 1
                   /\ srvResponses' = srvResponses + 1
                   /\ UNCHANGED <<srvStatus, sessionVars>>
  /\ UNCHANGED <<builderVars, clientVars, mergeVars, wireVars, peerVars, utilVars>>

\* the received packet holds no further request: the reply is sent
Batch_answer_done ==
  /\ srvStatus = "running"
  /\ srvStatus' = "done"
  /\ UNCHANGED <<srvAnswered, srvOutputs, srvRequest, srvReply, srvResponses,
                 builderVars, clientVars, sessionVars, mergeVars, wireVars, peerVars, utilVars>>

\* ------------------------------------------------------- merging, remapping
\* the batches a caller keeps to merge a later batch into
FirstBatches ==
  {<<[kind |-> "Body", hash |-> Scalar(0)]>>,
   <<[kind |-> "Account", block_hash |-> Scalar(0), address_hash |-> Scalar(0)],
     [kind |-> "Code", block_hash |-> BackReference(0, 0),
      code_hash |-> BackReference(0, 1)]>>}

\* the mappings a caller hands to adjust_refs besides the shift of a merge
Mappings ==
  {[i \in ReqIdx |-> i + 1], [i \in ReqIdx |-> 0], [i \in ReqIdx |-> 2 * i + 3]}

\* adjust_refs(mapping) on every request of a batch
Batch_adjusted(batch, m) ==
  [k \in DOMAIN batch |-> Request_adjust_refs(batch[k], m)]

\* the batch just built is kept as the first half of a merge; a new builder
\* starts for the second half
Batch_keep ==
  /\ status = "building"
  /\ first = <<>>
  /\ IF pushed = <<>> THEN FALSE ELSE pushed[1].result.ok
  /\ requests \in FirstBatches
  /\ first' = requests
  /\ requests' = <<>>
  /\ output_kinds' = EmptyMap
  /\ pushed' = <<>>
  /\ UNCHANGED <<merged, mapping, clientVars, serverVars, sessionVars, wireVars, peerVars, utilVars>>

\* the batch of the builder is appended to the kept batch, its
\* back-references shifted by the length of the kept batch
Batch_merge ==
  /\ status = "building"
  /\ first # <<>>
  /\ requests # <<>>
  /\ IF pushed = <<>> THEN TRUE ELSE pushed[1].result.ok
  /\ LET n == Len(first)
         shift == [i \in ReqIdx |-> i + n]
     IN  /\ mapping' = shift
         /\ merged' = first \o Batch_adjusted(requests, shift)
  /\ status' = "merged"
  /\ UNCHANGED <<builderVars, first, outputs, answered, responses, delivered,
                 fault, lastCheck, serverVars, sessionVars, wireVars, peerVars, utilVars>>

\* a caller rewrites the back-references of the builder's batch by a mapping
Batch_adjust_refs(m) ==
  /\ status = "building"
  /\ first = <<>>
  /\ requests # <<>>
  /\ IF pushed = <<>> THEN TRUE ELSE pushed[1].result.ok
  /\ mapping' = m
  /\ merged' = Batch_adjusted(requests, m)
  /\ status' = "adjusted"
  /\ UNCHANGED <<builderVars, first, outputs, answered, responses, delivered,
                 fault, lastCheck, serverVars, sessionVars, wireVars, peerVars, utilVars>>

\* --------------------------------------------------------------------- wire
\* the values sent besides the requests and responses of the batches
WireRequest ==
  Request \cup
    {[kind |-> "Headers", start |-> Scalar(HashOrNumber_Hash(170)), skip |-> 3,
      max |-> 256, reverse |-> TRUE],
     [kind |-> "HeaderProof", num |-> Scalar(0)],
     [kind |-> "HeaderProof", num |-> BackReference(1, 234)],
     [kind |-> "Execution", block_hash |-> BackReference(1, 0), from |-> 7,
      action |-> Action_Call(9), gas |-> 0, gas_price |-> 65536, value |-> 255,
      data |-> <<>>]}

WireResponse ==
  Response \cup
    {[kind |-> "Headers", headers |-> <<h, h>>] : h \in OpaqueValid("Header")}
    \cup {[kind |-> "HeaderProof", proof |-> << <<1, 2, 3>>, <<4, 5, 6>> >>,
           hash |-> 170, td |-> 0]}
    \cup {[kind |-> "Receipts", receipts |-> <<r>>] : r \in OpaqueValid("Receipt")}
    \cup {[kind |-> "Body", body |-> RlpList(<<RlpList(<<t, t>>), RlpList(<<h>>)>>)] :
            t \in OpaqueValid("UnverifiedTransaction"), h \in OpaqueValid("Header")}
    \cup {[kind |-> "Account", proof |-> << <<1, 2, 3>>, <<4, 5, 6>> >>,
           nonce |-> 0, balance |-> 123456, code_hash |-> 0,
           storage_root |-> 170],
          [kind |-> "Storage", proof |-> << <<>>, <<128>> >>, value |-> 170],
          [kind |-> "Code", code |-> <<>>],
          [kind |-> "Execution", items |-> << <<>>, <<1, 1, 1, 2, 3>> >>],
          [kind |-> "Signal", signal |-> <<1, 2, 3, 4, 5, 6, 7, 6, 5, 4>>]}

WireFields ==
  {<<[type |-> "Field", arg |-> "H256"], f>> : f \in FieldOf(H256s)}
    \cup {<<[type |-> "Field", arg |-> "u64"], f>> : f \in FieldOf(U64s \cup {0})}
    \cup {<<[type |-> "Field", arg |-> "HashOrNumber"], f>> :
            f \in FieldOf(ReqHashOrNumbers)}
    \cup {<<[type |-> "Field", arg |-> "usize"], f>> :
            f \in {Scalar(5), BackReference(1, 2), BackReference(300, 0)}}

\* hashes and numbers of equal value, the number 0 and numbers of several bytes
WireHashOrNumbers ==
  ReqHashOrNumbers
    \cup {HashOrNumber_Hash(h) : h \in {0, 5, 170, 2147483647}}
    \cup {HashOrNumber_Number(n) : n \in {0, 5, 170, 256, 65535, 2147483647}}

WireValues ==
  {<<[type |-> "Request", arg |-> "-"], r>> : r \in WireRequest}
    \cup {<<[type |-> "Incomplete", arg |-> r.kind], r>> : r \in WireRequest}
    \cup {<<[type |-> "Response", arg |-> "-"], r>> : r \in WireResponse}
    \cup {<<[type |-> "ResponseBody", arg |-> r.kind], r>> : r \in WireResponse}
    \cup WireFields
    \cup {<<[type |-> "HashOrNumber", arg |-> "-"], v>> : v \in WireHashOrNumbers}

\* the requests that request packets carry: the requests above and, of every
\* kind, those whose Fields all are the back-reference (0, 1)
WireRequestSample ==
  (WireRequest \ Request) \cup
    {r \in Request :
       \A i \in DOMAIN Layout("Incomplete", r.kind).members :
         Layout("Incomplete", r.kind).members[i][2] \in FieldTypes
           => r[Layout("Incomplete", r.kind).members[i][1]] = BackReference(0, 1)}

\* the responses that reply packets carry: the responses above and those to
\* a transaction index request
WireResponseSample == (WireResponse \ Response) \cup TransactionIndexResponse

\* the lists of requests and of responses that packets carry
WireRequestLists == UNION {[1 .. n -> WireRequestSample] : n \in 1 .. MaxBatch}
WireResponseLists == UNION {[1 .. n -> WireResponseSample] : n \in 1 .. MaxBatch}

\* request ids of packets
ReqIds == {100}

\* a value is encoded, sent and decoded, alone and as the one item of a list
Wire_roundtrip(T, v) ==
  /\ status = "building"
  /\ \E bytes \in {Encodable_rlp_append(T, v)}, list \in {encode_list(T, <<v>>)} :
       wire' = <<[T |-> T, sent |-> v,
                  rlp |-> bytes,
                  got |-> Decodable_decode(T, bytes),
                  outer_sent |-> <<v>>,
                  outer |-> list,
                  outer_got |-> as_list(T, list)]>>
  /\ status' = "sent"
  /\ UNCHANGED <<builderVars, outputs, answered, responses, delivered, fault,
                 lastCheck, serverVars, sessionVars, mergeVars, recv, peerVars, utilVars>>

\* what the receiver reads from a packet: val_at::<usize>(0) and list_at(1)
Packet_read(id, list) ==
  IF ~id.ok THEN id
  ELSE IF ~list.ok THEN list
  ELSE Ok(<<id.val, list.val>>)

\* a packet [req_id, list]: the list is read back with list_at(1)
Wire_packet(T, req_id, vs) ==
  /\ \E list \in {encode_list(T, vs)} :
       \E packet \in {RlpList(<<Value_rlp_append("usize", req_id), list>>)} :
         wire' = <<[T |-> T, sent |-> vs,
                    rlp |-> list,
                    got |-> as_list(T, list),
                    outer_sent |-> <<req_id, vs>>,
                    outer |-> packet,
                    outer_got |->
                      Packet_read(Scalar_val_at("usize", Rlp_at(packet, 0)),
                                  list_at(T, Rlp_at(packet, 1)))]>>
  /\ status' = "sent"
  /\ UNCHANGED <<builderVars, outputs, answered, responses, delivered, fault,
                 lastCheck, serverVars, sessionVars, mergeVars, recv, peerVars, utilVars>>

\* a list of requests is sent as a request packet
Wire_requests(req_id, reqs) ==
  /\ status = "building"
  /\ Wire_packet([type |-> "Request", arg |-> "-"], req_id, reqs)

\* a list of responses is sent as a reply packet
Wire_responses(req_id, resps) ==
  /\ status = "building"
  /\ Wire_packet([type |-> "Response", arg |-> "-"], req_id, resps)

\* first items a peer may put in place of a kind tag or a discriminant
ForgedTags == {0, 1, 2, 10, 255}

\* what a peer may send in place of the encoding of a value: the encoding,
\* the encoding with one more item at the end of its list, with its last item
\* missing, with its first item replaced by another one-byte value, with an
\* empty string added to its first item when that is a list, and an empty
\* byte string
Tampered(rlp) ==
  {rlp, RlpData(<<>>)}
    \cup (IF rlp.list
            THEN {RlpList(Append(rlp.items, RlpData(<<>>))),
                  RlpList(SubSeq(rlp.items, 1, Len(rlp.items) - 1))}
                   \cup {RlpList(<<Value_rlp_append("u8", t)>>
                                   \o SubSeq(rlp.items, 2, Len(rlp.items))) :
                           t \in ForgedTags}
                   \cup (IF rlp.items = <<>> THEN {}
                         ELSE IF ~rlp.items[1].list THEN {}
                         ELSE {RlpList(<<RlpList(Append(rlp.items[1].items,
                                                        RlpData(<<>>)))>>
                                         \o SubSeq(rlp.items, 2, Len(rlp.items)))})
            ELSE {})

\* the items received, each with the type it is decoded as
ReceivedItems ==
  UNION {{<<tv[1], r>> : r \in Tampered(Encodable_rlp_append(tv[1], tv[2]))} :
           tv \in {x \in WireValues :
                    IF x[1].type = "ResponseBody" THEN x[1].arg \in {"Headers", "Body"}
                    ELSE x[1].type \in {"Request", "Response", "Field"}}}

\* an item arrives from a peer and is decoded as a T
Wire_receive(T, rlp) ==
  /\ status = "building"
  /\ recv' = <<[T |-> T, rlp |-> rlp, got |-> Decodable_decode(T, rlp)]>>
  /\ status' = "received"
  /\ UNCHANGED <<builderVars, outputs, answered, responses, delivered, fault,
                 lastCheck, serverVars, sessionVars, mergeVars, wire, peerVars, utilVars>>

\* -------------------------------------------------------------- peer session
\* One peer session: credit counter, bounded outbound queue, batches in
\* flight, sanctions. A batch of n requests costs n credits.

\* the credit limit: small enough that a second batch can lack credits
CreditLimit == MaxBatch + 1

Error_NoCredits == [variant |-> "NoCredits", payload |-> "-"]
\* local refusals that are not protocol errors
Refusal_QueueFull == [variant |-> "QueueFull", payload |-> "-"]
Refusal_Cancelled == [variant |-> "Cancelled", payload |-> "-"]
Refusal_Disabled == [variant |-> "Disabled", payload |-> "-"]

\* the protocol errors raised in a session: every sanction occurs
PeerErrors ==
  {[variant |-> "Network", payload |-> "Io"],
   [variant |-> "Overburdened", payload |-> "-"],
   [variant |-> "RejectedByHandlers", payload |-> "-"],
   [variant |-> "Rlp", payload |-> "RlpIsTooShort"],
   Error_BadBackReference}

\* credit counter: try_charge(cost), refill(now)
Credits_try_charge_unchecked(balance, cost) == Ok(balance - cost)

Credits_try_charge(balance, cost) ==
  IF cost <= balance THEN Ok(balance - cost) ELSE Err(Error_NoCredits)

Credits_refill(balance) ==
  IF balance + 1 > CreditLimit THEN CreditLimit ELSE balance + 1

Queue_is_full_above(q) == Len(q) > QueueBound

\* the outbound queue accepts no further batch
Queue_is_full(q) == Len(q) >= QueueBound

Peer_in_order_any(b, pend) == \E i \in DOMAIN pend : pend[i] = b

\* responses are taken for the batch sent first only
Peer_in_order(b, pend) == IF pend = <<>> THEN FALSE ELSE b = Head(pend)

Peer_conn_after_lenient(c, p) ==
  CASE p = "None" -> c
    [] p = "Disconnect" -> "disconnected"
    [] p = "Disable" -> "disconnected"

\* the connection after a sanction: Disconnect drops it, Disable drops it
\* and bars the peer
Peer_conn_after(c, p) ==
  CASE p = "None" -> c
    [] p = "Disconnect" -> "disconnected"
    [] p = "Disable" -> "disabled"

\* a sequence of batch ids without the id b
SeqWithout(seq, b) == SelectSeq(seq, LAMBDA x : x # b)

Peer_batch(st, len, accepted, sent) ==
  [st |-> st, len |-> len, accepted |-> accepted,
   outputs |-> 0 .. (accepted - 1), sent |-> sent]

Peer_notice(op, b, result) == <<[op |-> op, batch |-> b, result |-> result]>>

nonPeerVars ==
  <<builderVars, clientVars, serverVars, sessionVars, mergeVars, wireVars,
    utilVars>>

Peer_discard_outputs_keeps(batch) == [batch EXCEPT !.st = "cancelled"]

\* a cancelled batch: nothing accepted, no output kept
Peer_discard_outputs(batch) ==
  Peer_batch("cancelled", batch.len, 0, batch.st = "sent")

\* a batch of len requests is offered for dispatch
Peer_dispatch(len) ==
  /\ conn = "connected"
  /\ Len(batches) < MaxPending
  /\ IF Queue_is_full(queue)
       THEN /\ batches' = Append(batches, Peer_batch("refused", len, 0, FALSE))
            /\ notice' = Peer_notice("dispatch", Len(batches) + 1, Err(Refusal_QueueFull))
            /\ UNCHANGED <<credits, queue>>
       ELSE IF ~Credits_try_charge(credits, len).ok
         THEN /\ batches' = Append(batches, Peer_batch("rejected", len, 0, FALSE))
              /\ notice' = <<[op |-> "dispatch", batch |-> Len(batches) + 1,
                              result |-> Credits_try_charge(credits, len),
                              sanction |-> Error_punishment(
                                             Credits_try_charge(credits, len).err)]>>
              /\ UNCHANGED <<credits, queue>>
         ELSE /\ batches' = Append(batches, Peer_batch("queued", len, 0, FALSE))
              /\ credits' = Credits_try_charge(credits, len).val
              /\ queue' = Append(queue, Len(batches) + 1)
              /\ notice' = Peer_notice("dispatch", Len(batches) + 1, Ok(Unit))
  /\ UNCHANGED <<conn, pending, log, nonPeerVars>>

\* the connection writes the first batch of the outbound queue
Peer_send ==
  /\ conn = "connected"
  /\ queue # <<>>
  /\ pending' = Append(pending, Head(queue))
  /\ queue' = Tail(queue)
  /\ batches' = [batches EXCEPT ![Head(queue)].st = "sent", ![Head(queue)].sent = TRUE]
  /\ notice' = Peer_notice("send", Head(queue), Ok(Unit))
  /\ UNCHANGED <<conn, credits, log, nonPeerVars>>

\* the timer refills the credit counter
Peer_refill ==
  /\ conn = "connected"
  /\ credits < CreditLimit
  /\ credits' = Credits_refill(credits)
  /\ notice' = Peer_notice("refill", 0, Ok(Unit))
  /\ UNCHANGED <<conn, queue, pending, batches, log, nonPeerVars>>

\* a protocol error: the batch being processed is aborted, the peer gets the
\* sanction of the error; Disable fails every other batch of the peer too
Peer_punish(e) ==
  /\ conn' = Peer_conn_after(conn, Error_punishment(e))
  /\ notice' = <<[op |-> "fault",
                  batch |-> IF pending = <<>> THEN 0 ELSE Head(pending),
                  result |-> Err(e), sanction |-> Error_punishment(e)]>>
  /\ IF Error_punishment(e) = "Disable"
       THEN /\ batches' =
                 [b \in DOMAIN batches |->
                    IF pending # <<>> /\ b = Head(pending)
                      THEN Peer_batch("aborted", batches[b].len, 0, TRUE)
                    ELSE IF batches[b].st \in {"queued", "sent"}
                      THEN Peer_batch("failed", batches[b].len, 0, batches[b].sent)
                    ELSE batches[b]]
            /\ queue' = <<>>
            /\ pending' = <<>>
       ELSE /\ batches' =
                 [b \in DOMAIN batches |->
                    IF pending # <<>> /\ b = Head(pending)
                      THEN Peer_batch("aborted", batches[b].len, 0, TRUE)
                      ELSE batches[b]]
            /\ queue' = queue
            /\ pending' = IF pending = <<>> THEN pending ELSE Tail(pending)
  /\ UNCHANGED <<credits, log, nonPeerVars>>

\* a response arrives for batch b
Peer_response(b) ==
  /\ conn = "connected"
  /\ b \in DOMAIN batches
  /\ IF batches[b].st = "cancelled"
       THEN /\ batches[b].sent
            /\ notice' = Peer_notice("response", b, Err(Refusal_Cancelled))
            /\ UNCHANGED <<conn, credits, queue, pending, batches, log, nonPeerVars>>
       ELSE /\ batches[b].st = "sent"
            /\ IF Peer_in_order(b, pending)
                 THEN /\ IF batches[b].accepted + 1 = batches[b].len
                           THEN /\ batches' =
                                     [batches EXCEPT
                                        ![b] = Peer_batch("delivered", batches[b].len,
                                                          batches[b].len, TRUE)]
                                /\ pending' = SeqWithout(pending, b)
                                /\ log' = Append(log, b)
                           ELSE /\ batches' =
                                     [batches EXCEPT
                                        ![b] = Peer_batch("sent", batches[b].len,
                                                          batches[b].accepted + 1, TRUE)]
                                /\ UNCHANGED <<pending, log>>
                      /\ notice' = Peer_notice("response", b, Ok(Unit))
                      /\ UNCHANGED <<conn, credits, queue, nonPeerVars>>
                 ELSE Peer_punish(Error_UnsolicitedResponse)

\* a protocol error is raised while the session processes its traffic
Peer_fault(e) ==
  /\ conn = "connected"
  /\ Peer_punish(e)

\* the caller cancels a batch that is queued or sent
Peer_cancel(b) ==
  /\ b \in DOMAIN batches
  /\ batches[b].st \in {"queued", "sent"}
  /\ batches' = [batches EXCEPT ![b] = Peer_discard_outputs(batches[b])]
  /\ queue' = SeqWithout(queue, b)
  /\ pending' = SeqWithout(pending, b)
  /\ notice' = Peer_notice("cancel", b, Ok(Unit))
  /\ UNCHANGED <<conn, credits, log, nonPeerVars>>

\* the peer connects again
Peer_reconnect ==
  /\ conn # "connected"
  /\ IF conn = "disconnected"
       THEN /\ conn' = "connected"
            /\ notice' = Peer_notice("reconnect", 0, Ok(Unit))
       ELSE /\ conn' = conn
            /\ notice' = Peer_notice("reconnect", 0, Err(Refusal_Disabled))
  /\ UNCHANGED <<credits, queue, pending, batches, log, nonPeerVars>>

\* --------------------------------------------------------- session errors
\* any protocol-level fault of a session is classified and punished
Session_error(e) ==
  /\ Len(reports) < MaxReports
  /\ Session_punish(e)
  /\ UNCHANGED <<builderVars, clientVars, serverVars, mergeVars, wireVars, peerVars, utilVars>>

\* ---------------------------------------------------------- MemoryLruCache
\* A value is modelled by its heap size; the backing LruCache by its entries,
\* from the least recently used to the most recently used, and its capacity.
INITIAL_CAPACITY == 4

CacheKeys == {"a", "b", "c", "d", "e"}
\* heap sizes of the values inserted: small ones and one above max_size
HeapSizes == {1, 2, CacheMaxSize + 1}

heap_size_of(val) == val

LruCache_new(capacity) == [entries |-> <<>>, capacity |-> capacity]

LruCache_len(self) == Len(self.entries)

\* the entries without the one of a key
LruCache_without(self, key) == SelectSeq(self.entries, LAMBDA e : e.key # key)

\* the value held for a key: <<>> or <<val>>
LruCache_value(self, key) ==
  [i \in 1 .. Len(SelectSeq(self.entries, LAMBDA e : e.key = key)) |->
     SelectSeq(self.entries, LAMBDA e : e.key = key)[i].val]

\* the entries cut down to the capacity, least recently used first
LruCache_trim(entries, capacity) ==
  IF Len(entries) > capacity
    THEN SubSeq(entries, Len(entries) - capacity + 1, Len(entries))
    ELSE entries

LruCache_set_capacity(self, capacity) ==
  [entries |-> LruCache_trim(self.entries, capacity), capacity |-> capacity]

\* insert: the entry becomes the most recently used; the old value of the key
\* is returned; an entry beyond the capacity is removed and not returned
LruCache_insert(self, key, val) ==
  [inner |-> [entries |->
                LruCache_trim(Append(LruCache_without(self, key),
                                     [key |-> key, val |-> val]),
                              self.capacity),
              capacity |-> self.capacity],
   returned |-> LruCache_value(self, key)]

\* remove_lru: the least recently used entry, if there is one
LruCache_remove_lru(self) ==
  IF self.entries = <<>>
    THEN [inner |-> self, removed |-> <<>>]
    ELSE [inner |-> [self EXCEPT !.entries = Tail(self.entries)],
          removed |-> <<Head(self.entries)>>]

\* get_mut: the entry, if held, becomes the most recently used
LruCache_get_mut(self, key) ==
  IF LruCache_value(self, key) = <<>>
    THEN self
    ELSE [self EXCEPT !.entries =
            Append(LruCache_without(self, key),
                   [key |-> key, val |-> LruCache_value(self, key)[1]])]

MemoryLruCache_new(max_size) ==
  [inner |-> LruCache_new(INITIAL_CAPACITY), cur_size |-> 0,
   max_size |-> max_size, last |-> <<>>]

\* grow the cache as necessary
MemoryLruCache_grow(self) ==
  IF LruCache_len(self.inner) = self.inner.capacity /\ self.cur_size < self.max_size
    THEN LruCache_set_capacity(self.inner, self.inner.capacity * 2)
    ELSE self.inner

\* account for the element inner.insert returned
MemoryLruCache_account(cur_size, ins) ==
  IF ins.returned # <<>>
    THEN [inner |-> ins.inner, cur_size |-> cur_size - heap_size_of(ins.returned[1])]
    ELSE [inner |-> ins.inner, cur_size |-> cur_size]

MemoryLruCache_evict_once(inner, cur_size, max_size) ==
  IF cur_size > max_size /\ inner.entries # <<>>
    THEN [inner |-> LruCache_remove_lru(inner).inner,
          cur_size |-> cur_size - heap_size_of(Head(inner.entries).val)]
    ELSE [inner |-> inner, cur_size |-> cur_size]

RECURSIVE MemoryLruCache_evict(_, _, _)
\* remove elements until we are below the memory target
MemoryLruCache_evict(inner, cur_size, max_size) ==
  IF cur_size > max_size /\ inner.entries # <<>>
    THEN MemoryLruCache_evict(LruCache_remove_lru(inner).inner,
                              cur_size - heap_size_of(Head(inner.entries).val),
                              max_size)
    ELSE [inner |-> inner, cur_size |-> cur_size]

MemoryLruCache_evicted(acc, max_size) ==
  MemoryLruCache_evict(acc.inner, acc.cur_size, max_size)

MemoryLruCache_insert(self, key, val) ==
  MemoryLruCache_evicted(
    MemoryLruCache_account(self.cur_size + heap_size_of(val),
                           LruCache_insert(MemoryLruCache_grow(self), key, val)),
    self.max_size)

MemoryLruCache_current_size(self) == self.cur_size

MemoryLruCache_backstore(self) == self.inner

\* cache.insert(key, val)
Cache_insert(key, val) ==
  /\ \E done \in {MemoryLruCache_insert(cache, key, val)} :
       cache' = [inner |-> done.inner, cur_size |-> done.cur_size,
                 max_size |-> cache.max_size,
                 last |-> <<[op |-> "insert", key |-> key, val |-> val,
                             held |-> LruCache_len(cache.inner)]>>]
  /\ UNCHANGED <<coreVars, pipe, manager>>

\* cache.get_mut(key)
Cache_get_mut(key) ==
  /\ cache' = [cache EXCEPT
                 !.inner = LruCache_get_mut(cache.inner, key),
                 !.last = <<[op |-> "get_mut", key |-> key,
                             val |-> Len(LruCache_value(cache.inner, key)),
                             held |-> LruCache_len(cache.inner)]>>]
  /\ UNCHANGED <<coreVars, pipe, manager>>

\* ------------------------------------------------------- migration Manager
\* A migration is modelled by the version it reports.
Versions == 0 .. MaxVersion

Manager_new == [migrations |-> <<>>, added |-> <<>>, asked |-> <<>>]

Manager_is_new_or_equal(migrations, version) ==
  IF migrations = <<>> THEN TRUE ELSE version >= migrations[Len(migrations)]

\* add_migration: is the version above the last registered one
Manager_is_new(migrations, version) ==
  IF migrations = <<>> THEN TRUE ELSE version > migrations[Len(migrations)]

Manager_add_migration(migrations, version) ==
  IF Manager_is_new(migrations, version)
    THEN [migrations |-> Append(migrations, version), result |-> Ok(Unit)]
    ELSE [migrations |-> migrations, result |-> Err("Cannot add migration.")]

Manager_is_needed(migrations, version) ==
  IF migrations = <<>> THEN FALSE ELSE version < migrations[Len(migrations)]

Manager_migrations_from(migrations, version) ==
  SelectSeq(migrations, LAMBDA m : m > version)

\* manager.add_migration(migration)
Migration_add(version) ==
  /\ \E done \in {Manager_add_migration(manager.migrations, version)} :
       manager' = [migrations |-> done.migrations,
                   added |-> <<[version |-> version, result |-> done.result]>>,
                   asked |-> <<>>]
  /\ UNCHANGED <<coreVars, pipe, cache>>

\* manager.is_needed(version), with the migrations execute would run
Migration_ask(version) ==
  /\ manager' = [manager EXCEPT
                   !.asked = <<[version |-> version,
                                is_needed |->
                                  Manager_is_needed(manager.migrations, version),
                                from |->
                                  Manager_migrations_from(manager.migrations,
                                                          version)]>>]
  /\ UNCHANGED <<coreVars, pipe, cache>>

\* -------------------------------------------- one request through its calls
\* An Execution request whose parameters all differ from the sample of
\* IncompleteExecutionRequest.
PipeExecutionRequest ==
  [kind : {"Execution"}, block_hash : FieldOf(ReqHashes), from : {7},
   action : {Action_Call(9)}, gas : {0}, gas_price : {65536}, value : {255},
   data : {<<>>}]

PipeRequests == Request \cup PipeExecutionRequest

PipeOutputs == {Output_Hash(170), Output_Number(1000)}

\* the store with the same output at every position
FullStore(o) == [p \in ReqIdx \X OutIdx |-> o]

\* output stores: empty, one output, or every output of one kind
PipeStores ==
  {EmptyMap} \cup {Insert(EmptyMap, p, o) : p \in ReqIdx \X OutIdx, o \in PipeOutputs}
    \cup {FullStore(o) : o \in PipeOutputs}

PipeMappings == [ReqIdx -> ReqIdx]

Pipe_new(request) ==
  [orig |-> request, cur |-> request, op |-> "new", steps |-> 0, result |-> <<>>]

\* a request is taken up
Pipe_start(request) ==
  /\ pipe = <<>>
  /\ pipe' = <<Pipe_new(request)>>
  /\ UNCHANGED <<coreVars, cache, manager>>

\* request.fill(oracle)
Pipe_fill(store) ==
  /\ pipe # <<>>
  /\ pipe[1].result = <<>>
  /\ pipe[1].steps < MaxSteps
  /\ pipe' = <<[pipe[1] EXCEPT
                  !.cur = Request_fill(pipe[1].cur, StoreOracle(store)),
                  !.op = "fill", !.steps = pipe[1].steps + 1]>>
  /\ UNCHANGED <<coreVars, cache, manager>>

\* request.adjust_refs(mapping)
Pipe_adjust_refs(remap) ==
  /\ pipe # <<>>
  /\ pipe[1].result = <<>>
  /\ pipe[1].steps < MaxSteps
  /\ pipe' = <<[pipe[1] EXCEPT
                  !.cur = Request_adjust_refs(pipe[1].cur, remap),
                  !.op = "adjust_refs", !.steps = pipe[1].steps + 1]>>
  /\ UNCHANGED <<coreVars, cache, manager>>

\* request.complete()
Pipe_complete ==
  /\ pipe # <<>>
  /\ pipe[1].result = <<>>
  /\ pipe' = <<[pipe[1] EXCEPT
                  !.op = "complete",
                  !.result = <<Request_complete(pipe[1].cur)>>]>>
  /\ UNCHANGED <<coreVars, cache, manager>>

\* ============================================================ specifications
Init ==
  /\ requests = <<>>
  /\ output_kinds = EmptyMap
  /\ pushed = <<>>
  /\ status = "building"
  /\ outputs = EmptyMap
  /\ answered = 0
  /\ responses = <<>>
  /\ delivered = <<>>
  /\ fault = "none"
  /\ lastCheck = <<>>
  /\ srvStatus = "running"
  /\ srvAnswered = 0
  /\ srvOutputs = EmptyMap
  /\ srvRequest = <<>>
  /\ srvReply = <<>>
  /\ srvResponses = 0
  /\ error = <<>>
  /\ reports = <<>>
  /\ first = <<>>
  /\ merged = <<>>
  /\ mapping = EmptyMap
  /\ wire = <<>>
  /\ recv = <<>>
  /\ conn = "connected"
  /\ credits = CreditLimit
  /\ queue = <<>>
  /\ pending = <<>>
  /\ batches = <<>>
  /\ log = <<>>
  /\ notice = <<>>
  /\ pipe = <<>>
  /\ cache = MemoryLruCache_new(CacheMaxSize)
  /\ manager = Manager_new

\* client side: build a batch, dispatch it, ingest the responses
Next ==
  \/ \E request \in Request : Builder_push(request)
  \/ Builder_discard
  \/ Builder_build
  \/ \E response \in Response : Batch_ingest(response)

Spec == Init /\ [][Next]_vars

\* server side: answer a received packet request by request
NextServer ==
  \/ \E request \in Request : Batch_answer(request)
  \/ Batch_answer_done

SpecServer == Init /\ [][NextServer]_vars

\* session: errors of any variant are punished
NextSession == \E e \in Error : Session_error(e)

SpecSession == Init /\ [][NextSession]_vars

\* merging: build a batch, keep it, build another, merge; or remap a batch
NextMerge ==
  \/ \E request \in Request : Builder_push(request)
  \/ Builder_discard
  \/ Batch_keep
  \/ Batch_merge
  \/ \E m \in Mappings : Batch_adjust_refs(m)

SpecMerge == Init /\ [][NextMerge]_vars

\* wire: values, request packets and reply packets are encoded and decoded
NextWire ==
  \/ \E tv \in WireValues : Wire_roundtrip(tv[1], tv[2])
  \/ \E req_id \in ReqIds, reqs \in WireRequestLists : Wire_requests(req_id, reqs)
  \/ \E req_id \in ReqIds, resps \in WireResponseLists : Wire_responses(req_id, resps)

SpecWire == Init /\ [][NextWire]_vars

\* receiving: items from a peer, well-formed or not, are decoded
NextReceive == \E tr \in ReceivedItems : Wire_receive(tr[1], tr[2])

SpecReceive == Init /\ [][NextReceive]_vars

\* peer session: dispatch, send, refill, responses, faults, cancel, reconnect
NextPeer ==
  \/ \E len \in 1 .. MaxBatch : Peer_dispatch(len)
  \/ Peer_send
  \/ Peer_refill
  \/ \E b \in 1 .. MaxPending : Peer_response(b)
  \/ \E e \in PeerErrors : Peer_fault(e)
  \/ \E b \in 1 .. MaxPending : Peer_cancel(b)
  \/ Peer_reconnect

SpecPeer == Init /\ [][NextPeer]_vars

\* the memory cache: inserts and lookups
NextCache ==
  \/ \E key \in CacheKeys, val \in HeapSizes : Cache_insert(key, val)
  \/ \E key \in CacheKeys : Cache_get_mut(key)

SpecCache == Init /\ [][NextCache]_vars

\* the migration manager: registrations and queries
NextManager ==
  \/ \E version \in Versions : Migration_add(version)
  \/ \E version \in Versions : Migration_ask(version)

SpecManager == Init /\ [][NextManager]_vars

\* one request: any sequence of fill and adjust_refs, then complete
NextPipe ==
  \/ \E request \in PipeRequests : Pipe_start(request)
  \/ \E store \in PipeStores : Pipe_fill(store)
  \/ \E remap \in PipeMappings : Pipe_adjust_refs(remap)
  \/ Pipe_complete

SpecPipe == Init /\ [][NextPipe]_vars

\* ================================================================== claims
\* Helpers of the claims: the data-model table of the specification.

\* declared outputs per kind, as (slot, kind) pairs in slot order
DeclaredOutputs(kind) ==
  CASE kind = "HeaderProof" -> << <<0, "Hash">> >>
    [] kind = "TransactionIndex" -> << <<0, "Number">>, <<1, "Hash">> >>
    [] kind = "Account" -> << <<0, "Hash">>, <<1, "Hash">> >>
    [] kind = "Storage" -> << <<0, "Hash">> >>
    [] OTHER -> <<>>

\* the Field members of a request, each with the output kinds it accepts
FieldsOf(r) ==
  CASE r.kind = "Headers" -> {<<r.start, {"Hash", "Number"}>>}
    [] r.kind = "HeaderProof" -> {<<r.num, {"Number"}>>}
    [] r.kind \in {"TransactionIndex", "Receipts", "Body"} -> {<<r.hash, {"Hash"}>>}
    [] r.kind = "Account" ->
         {<<r.block_hash, {"Hash"}>>, <<r.address_hash, {"Hash"}>>}
    [] r.kind = "Storage" ->
         {<<r.block_hash, {"Hash"}>>, <<r.address_hash, {"Hash"}>>,
          <<r.key_hash, {"Hash"}>>}
    [] r.kind = "Code" -> {<<r.block_hash, {"Hash"}>>, <<r.code_hash, {"Hash"}>>}
    [] r.kind \in {"Execution", "Signal"} -> {<<r.block_hash, {"Hash"}>>}

HasBackReference(r) == \E f \in FieldsOf(r) : f[1].tag = "BackReference"

\* a back-reference of a request at position pos (0-based) that the requests
\* `prior` (those before it) do not serve
BadReference(f, pos, prior) ==
  /\ f[1].tag = "BackReference"
  /\ \/ f[1].req >= pos
     \/ f[1].req >= Len(prior)
     \/ ~\E n \in DOMAIN DeclaredOutputs(prior[f[1].req + 1].kind) :
           LET d == DeclaredOutputs(prior[f[1].req + 1].kind)[n]
           IN  d[1] = f[1].idx /\ d[2] \in f[2]

KindsOf(calls) == [n \in DOMAIN calls |-> <<calls[n][1], calls[n][2].kind>>]

\* C1: static resolvability. A batch accepted by the builder never fails
\* complete(): no batch is abandoned with NoSuchOutput, and at every position
\* of a pending batch the request to be processed next, filled from the store
\* holding the outputs of the preceding responses, completes.
C1_StaticResolvability ==
  /\ fault # NoSuchOutput
  /\ (status = "pending" /\ answered < Len(requests)) =>
       Request_complete(
         Request_fill(requests[answered + 1], StoreOracle(outputs))).ok

\* a Headers request whose start referenced a Number output was resolved
C1_Witness ==
  /\ status = "accepted"
  /\ pushed # <<>>
  /\ pushed[1].req.kind = "Headers"
  /\ pushed[1].req.start.tag = "BackReference"
  /\ requests[pushed[1].pos + 1].start = Scalar(HashOrNumber_Number(1000))

\* C2: invariant I1. In every batch the builder can hold, a back-reference
\* (i, j) of the k-th request has i < k and request i declares slot j with a
\* kind the consuming field accepts.
C2_InvariantI1 ==
  \A k \in DOMAIN requests :
    \A f \in FieldsOf(requests[k]) :
      f[1].tag = "BackReference" =>
        /\ f[1].req < k - 1
        /\ \E n \in DOMAIN Request_note_outputs(requests[f[1].req + 1]) :
             LET d == Request_note_outputs(requests[f[1].req + 1])[n]
             IN  d[1] = f[1].idx /\ d[2] \in f[2]

\* a batch under construction whose second request holds a back-reference
C2_Witness ==
  /\ status = "building"
  /\ Len(requests) = 2
  /\ requests[1].kind = "Account"
  /\ requests[2].kind = "Storage"
  /\ requests[2].key_hash = BackReference(0, 1)

\* C3: the builder rejects with NoSuchOutput, and does not append, a request
\* holding a back-reference to its own or a later position, to an undeclared
\* slot, or to a slot of another kind than the field accepts.
C3_RejectsBadReference ==
  (status = "building" /\ pushed # <<>>) =>
    LET p == pushed[1]
        prior == SubSeq(requests, 1, p.pos)
    IN  (\E f \in FieldsOf(p.req) : BadReference(f, p.pos, prior)) =>
          /\ ~p.result.ok
          /\ p.result.err = NoSuchOutput
          /\ Len(requests) = p.pos

\* Body with a scalar hash, then Code with block_hash = BackReference(0, 0)
C3_Witness ==
  /\ status = "building"
  /\ Len(requests) = 1
  /\ requests[1].kind = "Body"
  /\ pushed # <<>>
  /\ pushed[1].req.kind = "Code"
  /\ pushed[1].req.block_hash = BackReference(0, 0)
  /\ pushed[1].req.code_hash = Scalar(0)
  /\ ~pushed[1].result.ok

\* C4: output typing. The (slot, kind) pairs a response writes through
\* fill_outputs are those its request declares through note_outputs, in the
\* same order, and they are the pairs of the catalogue table.
C4_OutputTyping ==
  srvReply # <<>> =>
    /\ KindsOf(Response_fill_outputs(srvReply[1].response))
         = Request_note_outputs(srvRequest[1].filled)
    /\ Request_note_outputs(srvRequest[1].filled)
         = DeclaredOutputs(srvReply[1].complete.kind)

C4_Witness ==
  /\ srvReply # <<>>
  /\ srvReply[1].response.kind = "TransactionIndex"
  /\ srvOutputs[<<srvAnswered - 1, 0>>] = Output_Number(1000)
  /\ srvOutputs[<<srvAnswered - 1, 1>>] = Output_Hash(170)

\* C5: punishment totality. The sanction reported for an error is the one of
\* the fixed table, whatever the payload and whatever was reported before.
C5_Table(variant) ==
  CASE variant \in {"Rlp", "NoCredits", "WrongNetwork", "UnsolicitedResponse",
                    "BadBackReference", "NotServer",
                    "UnsupportedProtocolVersion", "BadProtocolVersion"} -> "Disable"
    [] variant \in {"UnrecognizedPacket", "UnexpectedHandshake", "UnknownPeer",
                    "RejectedByHandlers"} -> "Disconnect"
    [] variant \in {"Network", "Overburdened"} -> "None"

C5_PunishmentTable ==
  error # <<>> =>
    /\ reports # <<>>
    /\ reports[Len(reports)] = C5_Table(error[1].variant)
    /\ reports[Len(reports)] \in Punishment

C5_Witness ==
  /\ Len(reports) = 2
  /\ reports[1] = "Disconnect"
  /\ error # <<>>
  /\ error[1] = [variant |-> "Network", payload |-> "Expired"]
  /\ reports[2] = "None"

\* C6: Punishment is the ascending chain None < Disconnect < Disable: any two
\* reported sanctions compare, by declaration position, as the chain says.
C6_Rank(p) == CASE p = "None" -> 0 [] p = "Disconnect" -> 1 [] p = "Disable" -> 2

C7_CheckResponse ==
  lastCheck # <<>> =>
    LET c == lastCheck[1]
    IN  /\ c.result.ok <=> (c.request.kind = c.response.kind)
        /\ ~c.result.ok => c.result.err = WrongKind

C7_Witness ==
  /\ lastCheck # <<>>
  /\ lastCheck[1].request.kind = "Headers"
  /\ lastCheck[1].response.kind = "Signal"
  /\ lastCheck[1].result = Err(WrongKind)

\* C8: a response of another kind than the dispatched request is treated as
\* UnsolicitedResponse and the sanction Disable is reported.
C8_KindMismatchDisables ==
  (lastCheck # <<>> /\ lastCheck[1].request.kind # lastCheck[1].response.kind) =>
    /\ error = <<Error_UnsolicitedResponse>>
    /\ reports # <<>>
    /\ reports[Len(reports)] = "Disable"

C8_Witness ==
  /\ lastCheck # <<>>
  /\ lastCheck[1].request.kind = "Account"
  /\ lastCheck[1].response.kind = "Storage"
  /\ error = <<Error_UnsolicitedResponse>>
  /\ reports = <<"Disable">>

\* C9: no partial acceptance. A batch is delivered only when every position
\* holds a response of its request's kind; an abandoned or pending batch has
\* delivered nothing, and an abandoned batch keeps no response and no output.
C9_NoPartialAccept ==
  /\ status = "accepted" =>
       /\ answered = Len(requests)
       /\ Len(responses) = Len(requests)
       /\ Len(delivered) = Len(requests)
       /\ \A i \in DOMAIN requests :
            /\ responses[i].kind = requests[i].kind
            /\ delivered[i][1].kind = requests[i].kind
            /\ delivered[i][2] = responses[i]
  /\ status # "accepted" => delivered = <<>>
  /\ status = "abandoned" => (responses = <<>> /\ outputs = EmptyMap)

\* the second response is of the wrong kind after the first one was accepted
\* and its output used: everything is dropped
C9_Witness ==
  /\ status = "abandoned"
  /\ lastCheck # <<>>
  /\ lastCheck[1].idx = 1
  /\ lastCheck[1].request = [kind |-> "Body", hash |-> Scalar(170)]
  /\ lastCheck[1].response.kind = "Receipts"
  /\ delivered = <<>>
  /\ outputs = EmptyMap

\* State part of C10: on the server a request that still holds a
\* back-reference after fill ends the batch with BadBackReference (sanction Disable): it is not
\* answered, nothing is stored for its position or a later one, and no later
\* step changes the server's batch.
C10_BadBackReferenceState ==
  /\ \A p \in DOMAIN srvOutputs : p[1] < srvAnswered
  /\ srvResponses = srvAnswered
  /\ (srvRequest # <<>> /\ HasBackReference(srvRequest[1].filled)) =>
       /\ srvStatus = "aborted"
       /\ srvReply = <<>>
       /\ error = <<Error_BadBackReference>>
       /\ reports # <<>>
       /\ reports[Len(reports)] = "Disable"

\* C10: in every state the server's batch satisfies the state part above, and
\* once the batch is aborted with BadBackReference no step answers a request
\* or writes an output any more.
C10_BadBackReferenceTerminates ==
  /\ []C10_BadBackReferenceState
  /\ [][srvStatus = "aborted" => UNCHANGED serverVars]_vars

C10_Witness ==
  /\ srvStatus = "aborted"
  /\ srvAnswered = 1
  /\ <<0, 0>> \in DOMAIN srvOutputs
  /\ srvRequest[1].received.kind = "Code"
  /\ srvRequest[1].filled.block_hash.tag = "Scalar"
  /\ srvRequest[1].filled.code_hash.tag = "BackReference"

\* C11: requests are processed strictly in array order and an output of
\* request i is visible to the fill of request k only when i < k. State part:
\* the store read by the fill of the next position (`answered`) holds outputs
\* of the positions before it only, one response per processed position.
C11_StoreBeforeFill ==
  /\ \A p \in DOMAIN outputs : p[1] < answered
  /\ Len(responses) = answered
  /\ answered <= Len(requests)

\* C11: the state part holds always, and every step that processes a request
\* processes position `answered`, moves to the next position, keeps what was
\* stored and stores new outputs under the processed position only.
C11_ArrayOrder ==
  /\ []C11_StoreBeforeFill
  /\ [][/\ answered' \in {answered, answered + 1, 0}
        /\ answered' = answered + 1 =>
             /\ lastCheck'[1].idx = answered
             /\ \A p \in DOMAIN outputs :
                  p \in DOMAIN outputs' /\ outputs'[p] = outputs[p]
             /\ \A p \in (DOMAIN outputs') \ (DOMAIN outputs) : p[1] = answered]_vars

\* both positions were processed; the second was filled from slot 1 of the first
C11_Witness ==
  /\ status = "accepted"
  /\ Len(requests) = 2
  /\ requests[1].kind = "Account"
  /\ requests[2] = [kind |-> "Receipts", hash |-> Scalar(170)]
  /\ outputs[<<0, 1>>] = Output_Hash(170)
  /\ DOMAIN outputs = {<<0, 0>>, <<0, 1>>}

\* C12: on the server a request is converted to its Complete form once,
\* immediately before it is answered, and is never answered while one of its
\* fields is a BackReference. State part: the request just answered had no
\* back-reference left after fill, the reply carries its one conversion, and
\* there is one reply per converted request.
C12_AnsweredIsComplete ==
  /\ srvResponses = srvAnswered
  /\ srvReply # <<>> =>
       /\ srvRequest # <<>>
       /\ ~HasBackReference(srvRequest[1].filled)
       /\ Request_complete(srvRequest[1].filled) = Ok(srvReply[1].complete)
       /\ Response_kind(srvReply[1].response)
            = CompleteRequest_kind(srvReply[1].complete)

\* C12: the state part holds always; a step answers at most one request, and
\* the request it answers is the one it filled from the store and converted in
\* that same step.
C12_CompleteOnceBeforeAnswer ==
  /\ []C12_AnsweredIsComplete
  /\ [][/\ srvAnswered' \in {srvAnswered, srvAnswered + 1}
        /\ srvAnswered' = srvAnswered + 1 =>
             /\ srvRequest'[1].filled
                  = Request_fill(srvRequest'[1].received, StoreOracle(srvOutputs))
             /\ srvReply' # <<>>
             /\ srvReply'[1].complete = Request_complete(srvRequest'[1].filled).val
        /\ srvAnswered' = srvAnswered =>
             (srvResponses' = srvResponses /\ srvOutputs' = srvOutputs)]_vars

\* the second request arrived with two back-references and was answered after
\* both were resolved
C12_Witness ==
  /\ srvAnswered = 2
  /\ srvReply # <<>>
  /\ srvRequest[1].received =
       [kind |-> "Code", block_hash |-> BackReference(0, 0),
        code_hash |-> BackReference(0, 1)]
  /\ srvReply[1].complete = [kind |-> "Code", block_hash |-> 0, code_hash |-> 170]

\* the names of the Field members of a request of the given kind
FieldNames(kind) ==
  CASE kind = "Headers" -> {"start"}
    [] kind = "HeaderProof" -> {"num"}
    [] kind \in {"TransactionIndex", "Receipts", "Body"} -> {"hash"}
    [] kind = "Account" -> {"block_hash", "address_hash"}
    [] kind = "Storage" -> {"block_hash", "address_hash", "key_hash"}
    [] kind = "Code" -> {"block_hash", "code_hash"}
    [] kind \in {"Execution", "Signal"} -> {"block_hash"}

\* C13: complete() fails, with NoSuchOutput, exactly when a Field of the
\* request is a BackReference; otherwise it yields the Complete request of the
\* same kind whose inputs are the scalar values and whose other parameters are
\* those of the request. Checked on every request the server completes.
C13_Complete ==
  srvRequest # <<>> =>
    LET r == srvRequest[1].filled
        c == Request_complete(r)
    IN  /\ c.ok <=> (\A n \in FieldNames(r.kind) : r[n].tag = "Scalar")
        /\ ~c.ok => (c.err = NoSuchOutput /\ srvStatus = "aborted")
        /\ c.ok =>
             /\ srvReply # <<>>
             /\ srvReply[1].complete = c.val
             /\ DOMAIN c.val = DOMAIN r
             /\ CompleteRequest_kind(c.val) = Request_kind(r)
             /\ \A n \in FieldNames(r.kind) : c.val[n] = r[n].val
             /\ \A n \in (DOMAIN r) \ FieldNames(r.kind) : c.val[n] = r[n]

\* a Storage request with three distinct-position inputs, one resolved from
\* an output, completes to the same three values
C13_Witness ==
  /\ srvReply # <<>>
  /\ srvRequest[1].filled =
       [kind |-> "Storage", block_hash |-> Scalar(0),
        address_hash |-> Scalar(170), key_hash |-> Scalar(0)]
  /\ srvReply[1].complete =
       [kind |-> "Storage", block_hash |-> 0, address_hash |-> 170,
        key_hash |-> 0]

\* the output kinds the Field member n of a request of the given kind expects
ExpectedKinds(kind, n) ==
  CASE kind = "Headers" -> {"Hash", "Number"}
    [] kind = "HeaderProof" -> {"Number"}
    [] OTHER -> {"Hash"}

\* the scalar a field of a request of the given kind takes from an output
ScalarFrom(kind, o) ==
  IF kind = "Headers"
    THEN IF o.kind = "Hash" THEN Scalar(HashOrNumber_Hash(o.val))
                            ELSE Scalar(HashOrNumber_Number(o.val))
    ELSE Scalar(o.val)

\* what C14 says about one field: f before fill, g after, under the oracle
C14_FieldFilled(kind, n, f, g, oracle) ==
  IF f.tag = "Scalar" THEN g = f
  ELSE LET o == oracle[<<f.req, f.idx>>]
       IN  IF o.ok /\ o.val.kind \in ExpectedKinds(kind, n)
             THEN g = ScalarFrom(kind, o.val)
             ELSE g = f

\* C14: fill turns a BackReference(i,j) field into Scalar(v) exactly when the
\* oracle returns for (i,j) an Output of a kind the field expects, v being its
\* value; on NoSuchOutput or another kind the field stays BackReference(i,j).
\* Scalars and the other parameters are not touched. Checked on every request
\* the server fills, against the store as it was when fill ran.
C14_Fill ==
  [][(srvStatus = "running" /\ srvStatus' # "done" /\ srvRequest' # <<>>) =>
       LET r == srvRequest'[1].received
           g == srvRequest'[1].filled
           oracle == StoreOracle(srvOutputs)
       IN  /\ g = Request_fill(r, oracle)
           /\ DOMAIN g = DOMAIN r
           /\ \A n \in FieldNames(r.kind) :
                C14_FieldFilled(r.kind, n, r[n], g[n], oracle)
           /\ \A n \in (DOMAIN r) \ FieldNames(r.kind) : g[n] = r[n]]_vars

\* of two back-references one is resolved (slot 0 of a HeaderProof answer) and
\* the other stays, the referenced slot 1 not being in the store
C14_Witness ==
  /\ srvStatus = "aborted"
  /\ srvAnswered = 1
  /\ srvOutputs = [p \in {<<0, 0>>} |-> Output_Hash(170)]
  /\ srvRequest[1].received =
       [kind |-> "Account", block_hash |-> BackReference(0, 0),
        address_hash |-> BackReference(0, 1)]
  /\ srvRequest[1].filled =
       [kind |-> "Account", block_hash |-> Scalar(170),
        address_hash |-> BackReference(0, 1)]

\* C15: for Headers.start = BackReference(i,j), check_outputs probes
\* check(i,j,Hash) first and check(i,j,Number) only when the Hash probe fails,
\* and succeeds when either does; fill takes whichever Output the oracle
\* returns, Hash(h) becoming Scalar(HashOrNumber::Hash(h)) and Number(n)
\* becoming Scalar(HashOrNumber::Number(n)).
C15_HeadersEitherKind ==
  /\ (pushed # <<>> /\ pushed[1].req.kind = "Headers"
        /\ pushed[1].req.start.tag = "BackReference") =>
       LET req == pushed[1].req
           f == BuilderCheck(output_kinds)
           h == f[<<req.start.req, req.start.idx, "Hash">>]
           n == f[<<req.start.req, req.start.idx, "Number">>]
           probes == header_check_outputs_probes(req, f)
       IN  /\ pushed[1].result = Request_check_outputs(req, f)
           /\ probes[1] = "Hash"
           /\ Len(probes) = IF h.ok THEN 1 ELSE 2
           /\ Len(probes) = 2 => probes[2] = "Number"
           /\ pushed[1].result.ok <=> (h.ok \/ n.ok)
  /\ (status = "pending" /\ answered < Len(requests)
        /\ requests[answered + 1].kind = "Headers"
        /\ requests[answered + 1].start.tag = "BackReference") =>
       LET req == requests[answered + 1]
           oracle == StoreOracle(outputs)
           o == oracle[<<req.start.req, req.start.idx>>]
           filled == Request_fill(req, oracle)
       IN  /\ (o.ok /\ o.val.kind = "Hash") =>
                filled.start = Scalar(HashOrNumber_Hash(o.val.val))
           /\ (o.ok /\ o.val.kind = "Number") =>
                filled.start = Scalar(HashOrNumber_Number(o.val.val))
           /\ ~o.ok => filled.start = req.start

\* Headers referencing the Number slot of a TransactionIndex: the Hash probe
\* failed, the Number probe succeeded, and the output is in the store for fill
C15_Witness ==
  /\ status = "pending"
  /\ answered = 1
  /\ Len(requests) = 2
  /\ requests[1].kind = "TransactionIndex"
  /\ requests[2].kind = "Headers"
  /\ requests[2].start = BackReference(0, 0)
  /\ pushed[1].req = requests[2]
  /\ pushed[1].result.ok
  /\ header_check_outputs_probes(requests[2], BuilderCheck(output_kinds))
       = <<"Hash", "Number">>
  /\ outputs[<<0, 0>>] = Output_Number(1000)

\* C16: adjust homomorphism. adjust_refs(m) leaves every Scalar field and
\* every other parameter unchanged and turns every BackReference(i,j) into
\* BackReference(m(i),j): m is applied once and j is kept. Checked on every
\* request of a batch that was remapped or shifted in a merge.
C16_AdjustHomomorphism ==
  status \in {"adjusted", "merged"} =>
    LET n == Len(merged) - Len(requests)
    IN  \A k \in DOMAIN requests :
          LET r == requests[k]
              a == merged[n + k]
          IN  /\ a = Request_adjust_refs(r, mapping)
              /\ DOMAIN a = DOMAIN r
              /\ \A f \in FieldNames(r.kind) :
                   IF r[f].tag = "Scalar"
                     THEN a[f] = r[f]
                     ELSE a[f] = BackReference(mapping[r[f].req], r[f].idx)
              /\ \A f \in (DOMAIN r) \ FieldNames(r.kind) : a[f] = r[f]

\* a Storage request with a scalar and two back-references to different slots,
\* remapped by i -> 2i + 3
C16_Witness ==
  /\ status = "adjusted"
  /\ mapping = [i \in ReqIdx |-> 2 * i + 3]
  /\ Len(requests) = 2
  /\ requests[2] =
       [kind |-> "Storage", block_hash |-> Scalar(0),
        address_hash |-> BackReference(0, 0), key_hash |-> BackReference(0, 1)]
  /\ merged[2] =
       [kind |-> "Storage", block_hash |-> Scalar(0),
        address_hash |-> BackReference(3, 0), key_hash |-> BackReference(3, 1)]

\* invariant I1 of a batch: every back-reference points to an earlier request
\* that declares the slot with a kind the field accepts
SatisfiesI1(batch) ==
  \A k \in DOMAIN batch :
    \A f \in FieldNames(batch[k].kind) :
      batch[k][f].tag = "BackReference" =>
        /\ batch[k][f].req < k - 1
        /\ \E d \in DOMAIN Request_note_outputs(batch[batch[k][f].req + 1]) :
             LET o == Request_note_outputs(batch[batch[k][f].req + 1])[d]
             IN  /\ o[1] = batch[k][f].idx
                 /\ o[2] \in ExpectedKinds(batch[k].kind, f)

\* C17: merging. The concatenation of two builder-accepted batches A and B,
\* B's back-references shifted by len(A), satisfies I1; A's requests are
\* unchanged; every back-reference of B points to the same request, now at
\* position i + len(A), and to the same slot.
C17_Merge ==
  status = "merged" =>
    LET n == Len(first)
    IN  /\ SatisfiesI1(first) /\ SatisfiesI1(requests)
        /\ Len(merged) = n + Len(requests)
        /\ SubSeq(merged, 1, n) = first
        /\ SatisfiesI1(merged)
        /\ \A k \in DOMAIN requests :
             /\ merged[n + k].kind = requests[k].kind
             /\ \A f \in FieldNames(requests[k].kind) :
                  LET b == requests[k][f]
                      c == merged[n + k][f]
                  IN  IF b.tag = "Scalar" THEN c = b
                      ELSE /\ c = BackReference(b.req + n, b.idx)
                           /\ merged[c.req + 1].kind = requests[b.req + 1].kind
                           /\ Request_note_outputs(merged[c.req + 1])
                                = Request_note_outputs(requests[b.req + 1])

\* a two-request batch merged behind a two-request batch: the Storage request
\* that referenced position 0 references position 2
C17_Witness ==
  /\ status = "merged"
  /\ Len(first) = 2
  /\ Len(requests) = 2
  /\ requests[1].kind = "Account"
  /\ requests[2] =
       [kind |-> "Storage", block_hash |-> Scalar(0),
        address_hash |-> BackReference(0, 1), key_hash |-> BackReference(0, 0)]
  /\ merged[2].code_hash = BackReference(0, 1)
  /\ merged[4] =
       [kind |-> "Storage", block_hash |-> Scalar(0),
        address_hash |-> BackReference(2, 1), key_hash |-> BackReference(2, 0)]

\* the requests of a state of the client: those of the batch (filled once
\* their response was accepted), the one pushed last, the one validated last
C18_Requests ==
  {requests[k] : k \in DOMAIN requests}
    \cup {pushed[k].req : k \in DOMAIN pushed}
    \cup {lastCheck[k].request : k \in DOMAIN lastCheck}

\* the same requests, also after fill from the current store and after
\* adjust_refs by each mapping
C18_Variants ==
  C18_Requests
    \cup {Request_fill(r, StoreOracle(outputs)) : r \in C18_Requests}
    \cup {Request_adjust_refs(r, m) : r \in C18_Requests, m \in Mappings}

\* C18: output declarations are a function of the request kind alone. Two
\* requests of the same kind declare the same (slot, kind) list through
\* note_outputs whatever their inputs and whatever responses were received,
\* also after fill or adjust_refs.
C18_DeclarationsByKind ==
  \A a, b \in C18_Variants :
    Request_kind(a) = Request_kind(b) =>
      Request_note_outputs(a) = Request_note_outputs(b)

\* two Account requests with different inputs (the second one filled from the
\* first one's outputs), both answered, declare the same two slots
C18_Witness ==
  /\ status = "accepted"
  /\ Len(requests) = 2
  /\ requests[1] =
       [kind |-> "Account", block_hash |-> Scalar(0), address_hash |-> Scalar(0)]
  /\ requests[2] =
       [kind |-> "Account", block_hash |-> Scalar(0), address_hash |-> Scalar(170)]
  /\ pushed[1].req.address_hash = BackReference(0, 1)
  /\ responses[1] # responses[2]
  /\ Request_note_outputs(pushed[1].req) = << <<0, "Hash">>, <<1, "Hash">> >>

\* C19: every Request, every Response, every per-kind Incomplete request and
\* every per-kind Response decodes from its encoding to itself, alone and as
\* the one element of a list; a list of Requests or of Responses of several
\* kinds decodes to itself, also as the second element of a packet
\* [req_id, list].
C19_RoundTrip ==
  wire # <<>> /\ wire[1].T.type \in {"Request", "Response", "Incomplete", "ResponseBody"}
    => /\ wire[1].got = Ok(wire[1].sent)
       /\ wire[1].outer_got = Ok(wire[1].outer_sent)

\* a request packet of two kinds, the second referring back to the first, has
\* been sent and read back
C19_Witness ==
  /\ wire # <<>>
  /\ wire[1].T.type = "Request"
  /\ Len(wire[1].outer_sent) = 2
  /\ Len(wire[1].sent) = 2
  /\ wire[1].sent[1].kind = "Account"
  /\ wire[1].sent[2].kind = "Code"
  /\ wire[1].sent[2].code_hash = BackReference(0, 1)
  /\ wire[1].outer_got.ok
  /\ wire[1].outer_got.val[2][2].kind = "Code"

\* C20: a Field is encoded as a list of two items: for Scalar(value) the
\* number 0 and the encoding of the value, for BackReference(req_idx, out_idx)
\* the number 1 and the list of req_idx and out_idx in that order; decoding it
\* gives back the same variant with the same value or the same indices.
C20_FieldEncoding ==
  wire # <<>> /\ wire[1].T.type = "Field"
    => LET f == wire[1].sent
           e == wire[1].rlp
           inner == [type |-> IF wire[1].T.arg = "HashOrNumber"
                                THEN "HashOrNumber" ELSE "Value",
                     arg |-> wire[1].T.arg]
       IN  /\ e.list
           /\ Len(e.items) = 2
           /\ f.tag = "Scalar"
                => /\ e.items[1] = RlpData(be_bytes(0))
                   /\ e.items[2] = IF inner.type = "HashOrNumber"
                                     THEN HashOrNumber_rlp_append(f.val)
                                     ELSE Value_rlp_append(inner.arg, f.val)
                   /\ wire[1].got.ok
                   /\ wire[1].got.val.tag = "Scalar"
                   /\ wire[1].got.val.val = f.val
           /\ f.tag = "BackReference"
                => /\ e.items[1] = RlpData(be_bytes(1))
                   /\ e.items[2] = RlpList(<<RlpData(be_bytes(f.req)),
                                             RlpData(be_bytes(f.idx))>>)
                   /\ wire[1].got.ok
                   /\ wire[1].got.val.tag = "BackReference"
                   /\ wire[1].got.val.req = f.req
                   /\ wire[1].got.val.idx = f.idx
           /\ wire[1].outer_got = Ok(<<f>>)

\* the back-reference (1, 2) of the usize field has been sent and read back,
\* its indices in order
C20_Witness ==
  /\ wire # <<>>
  /\ wire[1].T = [type |-> "Field", arg |-> "usize"]
  /\ wire[1].sent = BackReference(1, 2)
  /\ wire[1].rlp.items[2].items[1].data = <<1>>
  /\ wire[1].rlp.items[2].items[2].data = <<2>>
  /\ wire[1].got.ok

\* the kinds in the order of their wire tags 0..9
KindTags ==
  <<"Headers", "HeaderProof", "TransactionIndex", "Receipts", "Body",
    "Account", "Storage", "Code", "Execution", "Signal">>

\* the encoding is the two-item list [tag, body] with the tag of the kind
TaggedAs(rlp, kind) ==
  /\ rlp.list
  /\ Len(rlp.items) = 2
  /\ \E t \in 0 .. 9 : KindTags[t + 1] = kind /\ rlp.items[1] = RlpData(be_bytes(t))

\* C21: a Request and a Response are encoded as a list of two items, the tag
\* of the kind (Headers 0 ... Signal 9) and the body; decoding the encoding
\* gives a value of the same kind, for single values and for every element of
\* a packet's list.
C21_KindTag ==
  wire # <<>> /\ wire[1].T.type \in {"Request", "Response"}
    => IF Len(wire[1].outer_sent) = 1
         THEN /\ TaggedAs(wire[1].rlp, wire[1].sent.kind)
              /\ wire[1].got.ok
              /\ wire[1].got.val.kind = wire[1].sent.kind
         ELSE /\ wire[1].got.ok
              /\ Len(wire[1].got.val) = Len(wire[1].sent)
              /\ \A i \in DOMAIN wire[1].sent :
                   /\ TaggedAs(wire[1].rlp.items[i], wire[1].sent[i].kind)
                   /\ wire[1].got.val[i].kind = wire[1].sent[i].kind

\* a Signal response (the largest tag) has been sent and read back
C21_Witness ==
  /\ wire # <<>>
  /\ wire[1].T.type = "Response"
  /\ Len(wire[1].outer_sent) = 1
  /\ wire[1].sent.kind = "Signal"
  /\ wire[1].rlp.items[1] = RlpData(<<9>>)
  /\ wire[1].got.ok

\* C22: a HashOrNumber is written as the 32-byte string of a Hash or as the
\* integer of a Number (at most 8 bytes); reading takes the 32-byte form
\* when the item has it and the integer form otherwise; the value read back
\* is the value written, of the same variant.
C22_HashOrNumber ==
  wire # <<>> /\ wire[1].T.type = "HashOrNumber"
    => /\ wire[1].sent.tag = "Hash"
            => /\ wire[1].rlp = RlpData(fixed_bytes(32, wire[1].sent.val))
               /\ Len(wire[1].rlp.data) = 32
       /\ wire[1].sent.tag = "Number"
            => /\ wire[1].rlp = RlpData(be_bytes(wire[1].sent.val))
               /\ Len(wire[1].rlp.data) <= 8
       /\ wire[1].got.ok
       /\ wire[1].got.val.tag =
            IF Value_decode("H256", wire[1].rlp).ok THEN "Hash" ELSE "Number"
       /\ wire[1].got.val.tag = wire[1].sent.tag
       /\ wire[1].got.val.val = wire[1].sent.val
       /\ wire[1].outer_got = Ok(<<wire[1].sent>>)

\* the hash 5 and the number 5 have both been sent and read back; here the
\* hash, whose bytes end with the byte of the number
C22_Witness ==
  /\ wire # <<>>
  /\ wire[1].T.type = "HashOrNumber"
  /\ wire[1].sent = HashOrNumber_Hash(5)
  /\ wire[1].rlp.data[32] = 5
  /\ wire[1].got.ok
  /\ wire[1].got.val.tag = "Hash"

\* C23: the encoding is canonical: an item that decodes to a Request, a
\* Response or a Field is, byte for byte, the encoding of the decoded value
\* (an item with one more element at the end of its list is not accepted).
C23_Canonical ==
  recv # <<>> /\ recv[1].got.ok
    => Rlp_raw(Encodable_rlp_append(recv[1].T, recv[1].got.val)) = Rlp_raw(recv[1].rlp)

C26_Siblings ==
  [][(/\ notice' # notice
      /\ notice'[1].op = "fault"
      /\ pending # <<>>)
       => /\ batches'[Head(pending)].st = "aborted"
          /\ batches'[Head(pending)].outputs = {}
          /\ C5_Table(notice'[1].result.err.variant) # "Disable"
               => /\ \A b \in DOMAIN batches :
                       b # Head(pending) => batches'[b] = batches[b]
                  /\ queue' = queue
                  /\ pending' = Tail(pending)
                  /\ conn' # "disabled"]_vars

\* an error with the Disconnect sanction aborted a batch while a sibling
\* batch was in flight, and the sibling is still in flight
C26_Witness ==
  /\ notice # <<>>
  /\ notice[1].op = "fault"
  /\ notice[1].sanction = "Disconnect"
  /\ notice[1].batch # 0
  /\ batches[notice[1].batch].st = "aborted"
  /\ pending # <<>>
  /\ batches[Head(pending)].st = "sent"


\* C27: a peer punished with Disconnect loses its connection and a later
\* reconnection is accepted; a peer punished with Disable loses its
\* connection and no reconnection is accepted from then on; the None
\* sanction leaves the connection open.
C27_Sanctions ==
  [][/\ (notice' # notice /\ notice'[1].op = "fault")
          => /\ notice'[1].sanction = "None" => conn' = "connected"
             /\ notice'[1].sanction = "Disconnect" => conn' = "disconnected"
             /\ notice'[1].sanction = "Disable" => conn' = "disabled"
     /\ conn = "disabled" => conn' = "disabled"
     /\ (conn = "disconnected" /\ notice' # notice /\ notice'[1].op = "reconnect")
          => /\ conn' = "connected"
             /\ notice'[1].result.ok]_vars

\* a peer punished with Disable tried to connect again and was refused
C27_Witness ==
  /\ conn = "disabled"
  /\ notice # <<>>
  /\ notice[1].op = "reconnect"
  /\ notice[1].result = Err(Refusal_Disabled)


\* C28: cancelling a batch drops its pending responses and discards the
\* outputs received for it: a cancelled batch holds no output, awaits no
\* response, is never delivered, and stays so whatever arrives later.
C28_Cancel ==
  [][\A b \in DOMAIN batches' :
       batches'[b].st = "cancelled"
         => /\ batches'[b].outputs = {}
            /\ batches'[b].accepted = 0
            /\ \A i \in DOMAIN pending' : pending'[i] # b
            /\ \A i \in DOMAIN queue' : queue'[i] # b
            /\ \A i \in DOMAIN log' : log'[i] # b
            /\ (b \in DOMAIN batches /\ batches[b].st # "cancelled")
                 => /\ notice'[1].op = "cancel"
                    /\ notice'[1].batch = b
            /\ (b \in DOMAIN batches /\ batches[b].st = "cancelled")
                 => batches'[b] = batches[b]]_vars

\* a response arrived for a batch cancelled while in flight and was dropped
C28_Witness ==
  /\ notice # <<>>
  /\ notice[1].op = "response"
  /\ notice[1].result = Err(Refusal_Cancelled)
  /\ batches[notice[1].batch].st = "cancelled"
  /\ batches[notice[1].batch].len > 1
  /\ Len(log) > 0


\* C29: the outbound queue of the connection never holds more than its
\* bound; a batch offered while the queue is full is refused with an error
\* shown to the caller, and is neither enqueued nor sent.
C29_Backpressure ==
  [][/\ Len(queue') <= QueueBound
     /\ (Len(batches') = Len(batches) + 1 /\ Len(queue) >= QueueBound)
          => /\ notice'[1].op = "dispatch"
             /\ notice'[1].batch = Len(batches')
             /\ notice'[1].result = Err(Refusal_QueueFull)
             /\ batches'[Len(batches')].st = "refused"
             /\ queue' = queue
             /\ pending' = pending
             /\ credits' = credits]_vars

\* a batch was offered while the outbound queue was full and was refused
C29_Witness ==
  /\ Len(queue) = QueueBound
  /\ notice # <<>>
  /\ notice[1].op = "dispatch"
  /\ notice[1].result = Err(Refusal_QueueFull)
  /\ batches[notice[1].batch].st = "refused"


\* the Field members of a request with one expected kind, in declaration order
DeclaredFields(kind) ==
  CASE kind = "HeaderProof" -> <<[name |-> "num", kind |-> "Number"]>>
    [] kind \in {"TransactionIndex", "Receipts", "Body"} ->
         <<[name |-> "hash", kind |-> "Hash"]>>
    [] kind = "Account" -> <<[name |-> "block_hash", kind |-> "Hash"],
                             [name |-> "address_hash", kind |-> "Hash"]>>
    [] kind = "Storage" -> <<[name |-> "block_hash", kind |-> "Hash"],
                             [name |-> "address_hash", kind |-> "Hash"],
                             [name |-> "key_hash", kind |-> "Hash"]>>
    [] kind = "Code" -> <<[name |-> "block_hash", kind |-> "Hash"],
                          [name |-> "code_hash", kind |-> "Hash"]>>
    [] kind \in {"Execution", "Signal"} -> <<[name |-> "block_hash", kind |-> "Hash"]>>

\* the calls of `calls` are those for the back-references `refs` of `req`,
\* in that order, up to and including the first that fails
CallsFollow(req, f, refs, calls, result) ==
  /\ Len(calls) <= Len(refs)
  /\ \A i \in DOMAIN calls :
       /\ calls[i].req = req[refs[i].name].req
       /\ calls[i].idx = req[refs[i].name].idx
       /\ calls[i].kind = refs[i].kind
       /\ calls[i].result = f[<<calls[i].req, calls[i].idx, calls[i].kind>>]
       /\ i < Len(calls) => calls[i].result.ok
  /\ Len(calls) < Len(refs) => (calls # <<>> /\ ~calls[Len(calls)].result.ok)
  /\ result = IF calls = <<>> \/ calls[Len(calls)].result.ok
                THEN Ok(Unit)
                ELSE calls[Len(calls)].result

\* C30: check_outputs makes no call for a Scalar field; for the
\* BackReference(i,j) fields it calls check(i, j, expected kind) in the order
\* the fields are declared, returns the first failure without checking the
\* fields after it, and returns Ok only when every call it made succeeded.
\* (Headers.start, which has two expected kinds, is the subject of C15.)
C30_CheckOrder ==
  (pushed # <<>> /\ pushed[1].req.kind # "Headers") =>
    /\ pushed[1].result =
         Request_check_outputs(pushed[1].req, BuilderCheck(output_kinds))
    /\ CallsFollow(pushed[1].req, BuilderCheck(output_kinds),
                   SelectSeq(DeclaredFields(pushed[1].req.kind),
                             LAMBDA d : pushed[1].req[d.name].tag = "BackReference"),
                   Request_check_outputs_calls(pushed[1].req,
                                               BuilderCheck(output_kinds)),
                   pushed[1].result)

\* a Storage request with a Scalar block_hash, an address_hash whose check
\* failed and a key_hash back-reference that was therefore not checked
C30_Witness ==
  /\ pushed # <<>>
  /\ pushed[1].req.kind = "Storage"
  /\ pushed[1].req.block_hash.tag = "Scalar"
  /\ pushed[1].req.address_hash = BackReference(1, 0)
  /\ pushed[1].req.key_hash = BackReference(0, 0)
  /\ pushed[1].pos = 1
  /\ BuilderCheck(output_kinds)[<<0, 0, "Hash">>].ok
  /\ ~pushed[1].result.ok
  /\ Len(Request_check_outputs_calls(pushed[1].req, BuilderCheck(output_kinds))) = 1


\* the value of a received first item of at most one byte
FirstByte(rlp) ==
  IF rlp.items[1].data = <<>> THEN 0 ELSE rlp.items[1].data[1]

\* the received item is a list whose first item is a string of at most one byte
HasFirstByte(rlp) ==
  IF ~rlp.list THEN FALSE
  ELSE IF rlp.items = <<>> THEN FALSE
  ELSE IF rlp.items[1].list THEN FALSE
  ELSE Len(rlp.items[1].data) <= 1

\* C31: decoding a Request or a Response whose kind tag is not one of 0..9
\* fails with a decoding error, whose sanction as Error::Rlp is Disable, and
\* yields no value; a value is yielded only for a tag in 0..9, and is of the
\* kind that tag stands for.
C31_UnknownKind ==
  (recv # <<>> /\ recv[1].T.type \in {"Request", "Response"}
     /\ HasFirstByte(recv[1].rlp)) =>
    /\ FirstByte(recv[1].rlp) \notin 0 .. 9
         => /\ ~recv[1].got.ok
            /\ recv[1].got.err \in DecoderErrors
            /\ Error_punishment([variant |-> "Rlp", payload |-> recv[1].got.err])
                 = "Disable"
    /\ recv[1].got.ok
         => /\ FirstByte(recv[1].rlp) \in 0 .. 9
            /\ Kind_as_u8(recv[1].got.val.kind) = FirstByte(recv[1].rlp)

\* a Signal request arrived under the kind tag 10 and was not decoded
C31_Witness ==
  /\ recv # <<>>
  /\ recv[1].T.type = "Request"
  /\ HasFirstByte(recv[1].rlp)
  /\ FirstByte(recv[1].rlp) = 10
  /\ Len(recv[1].rlp.items) = 2
  /\ Decodable_decode([type |-> "Incomplete", arg |-> "Signal"], recv[1].rlp.items[2]).ok
  /\ recv[1].got = Err("Custom(Unknown PIP request ID.)")

\* C32: decoding a Field whose discriminant is neither 0 nor 1 fails with a
\* decoding error; a Field decoded under the discriminant 0 is a Scalar and
\* one decoded under the discriminant 1 is a BackReference.
C32_FieldDiscriminant ==
  (recv # <<>> /\ recv[1].T.type = "Field" /\ HasFirstByte(recv[1].rlp)) =>
    /\ FirstByte(recv[1].rlp) \notin {0, 1}
         => /\ ~recv[1].got.ok
            /\ recv[1].got.err = "Custom(Unknown discriminant for PIP field.)"
    /\ (recv[1].got.ok /\ FirstByte(recv[1].rlp) = 0)
         => recv[1].got.val.tag = "Scalar"
    /\ (recv[1].got.ok /\ FirstByte(recv[1].rlp) = 1)
         => recv[1].got.val.tag = "BackReference"

\* a back-reference arrived under the discriminant 2 and was not decoded
C32_Witness ==
  /\ recv # <<>>
  /\ recv[1].T.type = "Field"
  /\ HasFirstByte(recv[1].rlp)
  /\ FirstByte(recv[1].rlp) = 2
  /\ Len(recv[1].rlp.items) = 2
  /\ recv[1].rlp.items[2].list
  /\ ~recv[1].got.ok


\* the item is a list and each of its items is a valid encoding of a T
ListOfValid(rlp, T) ==
  IF ~rlp.list THEN FALSE ELSE \A i \in DOMAIN rlp.items : rlp.items[i] \in OpaqueValid(T)

\* the received Body item holds a list of transactions, then a list of headers
BodyWellFormed(rlp) ==
  IF ~rlp.list THEN FALSE
  ELSE IF Len(rlp.items) < 2 THEN FALSE
  ELSE /\ ListOfValid(rlp.items[1], "UnverifiedTransaction")
       /\ ListOfValid(rlp.items[2], "Header")

\* C33: decoding a Body response fails unless its first element is a list of
\* transactions and its second a list of headers, decoding a Headers response
\* fails unless every element is a full header, and a decoded response keeps
\* the bytes received: its encoding is the item that was received.
C33_RawKept ==
  (recv # <<>> /\ recv[1].T.type = "ResponseBody" /\ recv[1].got.ok) =>
    /\ recv[1].T.arg = "Body" => BodyWellFormed(recv[1].rlp)
    /\ recv[1].T.arg = "Headers" =>
         (recv[1].rlp.list => ListOfValid(recv[1].rlp, "Header"))
    /\ Rlp_raw(Encodable_rlp_append(recv[1].T, recv[1].got.val))
         = Rlp_raw(recv[1].rlp)


\* the slots a request declares as outputs
DeclaredSlots(request) ==
  {Request_note_outputs(request)[n][1] : n \in DOMAIN Request_note_outputs(request)}

\* C37: extracting the outputs of the response at position i writes only store
\* entries (i, slot) for the slots its kind declares and leaves every entry of
\* another position as it was; a response of a kind that declares no output
\* writes nothing.
C37_ExtractionFrame ==
  [][answered' = answered + 1
       => /\ \A p \in DOMAIN outputs :
               p[1] # answered => (p \in DOMAIN outputs' /\ outputs'[p] = outputs[p])
          /\ \A p \in DOMAIN outputs' :
               (p \notin DOMAIN outputs \/ p[1] = answered)
                 => /\ p[1] = answered
                    /\ p[2] \in DeclaredSlots(requests[answered + 1])
                    /\ responses'[answered + 1].kind = requests[answered + 1].kind
          /\ DeclaredSlots(requests[answered + 1]) = {}
               => outputs' = outputs]_vars

\* the second response of a batch was extracted into a store that held the
\* outputs of the first: both slots of position 1 beside slot 0 of position 0
C37_Witness ==
  /\ status = "accepted"
  /\ answered = 2
  /\ <<0, 0>> \in DOMAIN outputs
  /\ <<1, 0>> \in DOMAIN outputs
  /\ <<1, 1>> \in DOMAIN outputs
  /\ outputs[<<0, 0>>] # outputs[<<1, 0>>]

\* ---------------------------------------------------------------- C38, C39
RECURSIVE SumSizes(_, _)
\* the heap sizes of the first n entries, added up
SumSizes(entries, n) ==
  IF n = 0 THEN 0 ELSE heap_size_of(entries[n].val) + SumSizes(entries, n - 1)

\* the entries as inner.insert orders them before anything is evicted
EntriesPut(self, key, val) ==
  Append(LruCache_without(self.inner, key), [key |-> key, val |-> val])

IsSuffix(short, long) ==
  /\ Len(short) <= Len(long)
  /\ short = SubSeq(long, Len(long) - Len(short) + 1, Len(long))

\* a step of insert(key, val)
InsertStep(key, val) ==
  /\ cache' # cache
  /\ cache'.last # <<>>
  /\ cache'.last[1].op = "insert"
  /\ cache'.last[1].key = key
  /\ cache'.last[1].val = val

\* C38: after every insert returns, current_size() is at most max_size; the
\* entries evicted are the least recently used ones (what stays is a tail of
\* the recency order), nothing is evicted when the total stays within the
\* limit and the backing cache has room, and a value larger than max_size on
\* its own is not held once insert returns.
C38_Bounded ==
  [][\A key \in CacheKeys, val \in HeapSizes :
       InsertStep(key, val) =>
         /\ MemoryLruCache_current_size(cache') <= cache'.max_size
         /\ SumSizes(cache'.inner.entries, Len(cache'.inner.entries))
              <= cache'.max_size
         /\ IsSuffix(cache'.inner.entries, EntriesPut(cache, key, val))
         /\ (/\ Len(EntriesPut(cache, key, val)) <= cache'.inner.capacity
             /\ cache.cur_size + heap_size_of(val) <= cache.max_size)
            => cache'.inner.entries = EntriesPut(cache, key, val)
         /\ heap_size_of(val) > cache.max_size
            => LruCache_value(cache'.inner, key) = <<>>]_vars

\* an insert of a value that fits evicted at least one older entry and the
\* inserted entry is held as the most recently used one
C38_Witness ==
  /\ cache.last # <<>>
  /\ cache.last[1].op = "insert"
  /\ heap_size_of(cache.last[1].val) <= cache.max_size
  /\ LruCache_len(cache.inner) < cache.last[1].held
  /\ cache.inner.entries # <<>>
  /\ cache.inner.entries[Len(cache.inner.entries)].key = cache.last[1].key
  /\ MemoryLruCache_current_size(cache) <= cache.max_size

\* C39: current_size() equals the sum of the heap sizes of exactly the
\* entries held in the backing cache.
C39_Accounting ==
  MemoryLruCache_current_size(cache)
    = SumSizes(MemoryLruCache_backstore(cache).entries,
               LruCache_len(MemoryLruCache_backstore(cache)))

\* --------------------------------------------------------------------- C40
StrictlyIncreasing(migrations) ==
  \A i \in 1 .. Len(migrations) - 1 : migrations[i] < migrations[i + 1]

\* a step of add_migration
AddStep ==
  /\ manager' # manager
  /\ manager'.added # <<>>
  /\ manager'.asked = <<>>

\* a step of is_needed
AskStep ==
  /\ manager' # manager
  /\ manager'.asked # <<>>

\* C40: the registered migrations have strictly increasing versions;
\* add_migration with a version not greater than the last registered one
\* returns an error and leaves the list unchanged, any other one appends the
\* migration; is_needed(v) is true exactly when a migration is registered and
\* v is less than the last registered version, which is exactly when some
\* registered migration has a version above v.
C40_Migrations ==
  [][/\ StrictlyIncreasing(manager'.migrations)
     /\ AddStep =>
          IF /\ manager.migrations # <<>>
             /\ manager'.added[1].version
                  <= manager.migrations[Len(manager.migrations)]
            THEN /\ ~manager'.added[1].result.ok
                 /\ manager'.migrations = manager.migrations
            ELSE /\ manager'.added[1].result.ok
                 /\ manager'.migrations
                      = Append(manager.migrations, manager'.added[1].version)
     /\ AskStep =>
          /\ manager'.migrations = manager.migrations
          /\ manager'.asked[1].is_needed
               <=> /\ manager.migrations # <<>>
                   /\ manager'.asked[1].version
                        < manager.migrations[Len(manager.migrations)]
          /\ manager'.asked[1].is_needed <=> manager'.asked[1].from # <<>>]_vars

\* several migrations are registered, the last add_migration was refused and
\* a migration is needed for the version asked about
C40_Witness ==
  /\ Len(manager.migrations) >= 2
  /\ manager.added # <<>>
  /\ ~manager.added[1].result.ok
  /\ manager.asked # <<>>
  /\ manager.asked[1].is_needed
  /\ manager.asked[1].version >= manager.migrations[1]

\* ---------------------------------------------------------- C34, C35, C36
\* the members of an Execution request that are not Fields
ExecutionParams == {"from", "action", "gas", "gas_price", "value", "data"}

\* the Execution requests that have the block_hash of the given one
SameBlockHash(request) ==
  {other \in PipeRequests :
     other.kind = "Execution" /\ other.block_hash = request.block_hash}

\* checks a Builder can hand to check_outputs
PipeChecks ==
  {BuilderCheck(EmptyMap), BuilderCheck(FullStore("Hash")),
   BuilderCheck(FullStore("Number"))}

\* a step of the call op on the request in hand
PipeStep(op) ==
  /\ pipe # <<>>
  /\ pipe' # <<>>
  /\ pipe' # pipe
  /\ pipe'[1].op = op

\* C34: an Execution request has exactly one back-referenceable input:
\* check_outputs, fill and adjust_refs read block_hash only (two requests
\* with the same block_hash get the same verdict and the same new
\* block_hash) and change block_hash only, and complete copies from, action,
\* gas, gas_price, value and data unchanged beside the scalar block_hash.
C34_ExecutionInputs ==
  [][(pipe # <<>> /\ pipe[1].cur.kind = "Execution") =>
       /\ (PipeStep("fill") \/ PipeStep("adjust_refs")) =>
            /\ pipe'[1].cur =
                 [pipe[1].cur EXCEPT !.block_hash = pipe'[1].cur.block_hash]
            /\ \A n \in ExecutionParams : pipe'[1].cur[n] = pipe[1].cur[n]
       /\ PipeStep("fill") =>
            \A other \in SameBlockHash(pipe[1].cur), store \in PipeStores :
              Request_fill(other, StoreOracle(store)).block_hash
                = Request_fill(pipe[1].cur, StoreOracle(store)).block_hash
       /\ PipeStep("adjust_refs") =>
            \A other \in SameBlockHash(pipe[1].cur), remap \in PipeMappings :
              Request_adjust_refs(other, remap).block_hash
                = Request_adjust_refs(pipe[1].cur, remap).block_hash
       /\ PipeStep("complete") =>
            /\ \A other \in SameBlockHash(pipe[1].cur), f \in PipeChecks :
                 Request_check_outputs(other, f)
                   = Request_check_outputs(pipe[1].cur, f)
            /\ pipe'[1].result[1].ok <=> pipe[1].cur.block_hash.tag = "Scalar"
            /\ pipe'[1].result[1].ok =>
                 /\ pipe'[1].result[1].val.block_hash = pipe[1].cur.block_hash.val
                 /\ \A n \in ExecutionParams :
                      /\ pipe'[1].result[1].val[n] = pipe[1].cur[n]
                      /\ pipe'[1].result[1].val[n] = pipe[1].orig[n]]_vars

\* an Execution request whose block_hash was a back-reference is completed
\* after a fill resolved it and its references were adjusted
C34_Witness ==
  /\ pipe # <<>>
  /\ pipe[1].op = "complete"
  /\ pipe[1].orig.kind = "Execution"
  /\ pipe[1].orig.block_hash.tag = "BackReference"
  /\ pipe[1].orig.from = 7
  /\ pipe[1].steps >= 2
  /\ pipe[1].result[1].ok
  /\ pipe[1].result[1].val.block_hash = 170
  /\ pipe[1].result[1].val.gas_price = 65536

\* the Fields of a request that hold a scalar
Resolved(request) ==
  {n \in FieldNames(request.kind) : request[n].tag = "Scalar"}

\* C35: fill is monotone and idempotent: it never changes a Scalar field, a
\* field that stays a BackReference keeps its reference, nothing but Fields
\* is changed, the set of resolved fields only grows, and filling again with
\* the same oracle returns the request unchanged.
C35_FillMonotone ==
  [][PipeStep("fill") =>
       /\ \A n \in FieldNames(pipe[1].cur.kind) :
            /\ pipe[1].cur[n].tag = "Scalar" => pipe'[1].cur[n] = pipe[1].cur[n]
            /\ pipe'[1].cur[n].tag = "BackReference"
                 => pipe'[1].cur[n] = pipe[1].cur[n]
       /\ \A n \in (DOMAIN pipe[1].cur) \ FieldNames(pipe[1].cur.kind) :
            pipe'[1].cur[n] = pipe[1].cur[n]
       /\ DOMAIN pipe'[1].cur = DOMAIN pipe[1].cur
       /\ Resolved(pipe[1].cur) \subseteq Resolved(pipe'[1].cur)
       /\ \A store \in PipeStores :
            pipe'[1].cur = Request_fill(pipe[1].cur, StoreOracle(store))
              => Request_fill(pipe'[1].cur, StoreOracle(store)) = pipe'[1].cur]_vars

\* a Storage request of three back-references after two fills: some of its
\* fields are resolved, one is still a reference
C35_Witness ==
  /\ pipe # <<>>
  /\ pipe[1].op = "fill"
  /\ pipe[1].steps >= 2
  /\ pipe[1].orig.kind = "Storage"
  /\ Resolved(pipe[1].orig) = {}
  /\ pipe[1].orig.block_hash # pipe[1].orig.address_hash
  /\ pipe[1].cur.block_hash = Scalar(170)
  /\ pipe[1].cur.address_hash = Scalar(170)
  /\ pipe[1].cur.key_hash.tag = "BackReference"

\* C36: the kind is preserved by every call: fill and adjust_refs leave
\* Request::kind() as it was, and a complete() that succeeds yields a
\* CompleteRequest of the kind of the request.
C36_KindPreserved ==
  [][/\ (PipeStep("fill") \/ PipeStep("adjust_refs")) =>
          /\ Request_kind(pipe'[1].cur) = Request_kind(pipe[1].cur)
          /\ Request_kind(pipe'[1].cur) = Request_kind(pipe'[1].orig)
     /\ (PipeStep("complete") /\ pipe'[1].result[1].ok) =>
          /\ CompleteRequest_kind(pipe'[1].result[1].val)
               = Request_kind(pipe[1].cur)
          /\ CompleteRequest_kind(pipe'[1].result[1].val)
               = Request_kind(pipe[1].orig)]_vars

\* a Code request with a back-reference is completed after a fill and an
\* adjust_refs
C36_Witness ==
  /\ pipe # <<>>
  /\ pipe[1].op = "complete"
  /\ pipe[1].steps >= 2
  /\ pipe[1].orig.kind = "Code"
  /\ pipe[1].orig.code_hash = BackReference(1, 0)
  /\ pipe[1].cur.code_hash = Scalar(170)
  /\ pipe[1].result[1].ok
  /\ CompleteRequest_kind(pipe[1].result[1].val) = "Code"

====
